---- MODULE Spec2Model ----
(***************************************************************************)
(* The recovering stage engine of kube-diagnoser (recovererChain) driving  *)
(* one Abnormal through its work queue, the node filter, the embedded      *)
(* processors, the ordered dispatch to external recoverers, the validation *)
(* of their responses and the terminal status update.                      *)
(***************************************************************************)
EXTENDS Integers, Sequences, FiniteSets, TLC

\* ---------------------------------------------------------------- bounds
\* Capacity of recovererChainCh.
ChanCap == 2
\* Number of distinct Recoverer objects that exist.
NumRecoverers == 2

\* ------------------------------------------------------- api/v1 constants
InformationCollecting == "InformationCollecting"
AbnormalDiagnosing == "Diagnosing"
AbnormalRecovering == "Recovering"
AbnormalSucceeded == "Succeeded"
AbnormalFailed == "Failed"
AbnormalUnknown == "Unknown"
Phases ==
  {InformationCollecting, AbnormalDiagnosing, AbnormalRecovering,
   AbnormalSucceeded, AbnormalFailed, AbnormalUnknown}

InformationCollectorType == "InformationCollector"
DiagnoserType == "Diagnoser"
RecovererType == "Recoverer"

InformationCollected == "InformationCollected"
AbnormalIdentified == "Identified"
AbnormalRecovered == "Recovered"

ConditionTrue == "True"
ConditionFalse == "False"

\* NamespacedName values: no recoverer is the nil pointer.
NoName == [namespace |-> "", name |-> ""]
R1 == [namespace |-> "default", name |-> "recoverer1"]
R1k == [namespace |-> "kube-system", name |-> "recoverer1"]
R2 == [namespace |-> "default", name |-> "recoverer2"]
RecovererNames == {<<R1, R1k, R2>>[i] : i \in 1..NumRecoverers}
D1 == [namespace |-> "default", name |-> "diagnoser1"]
D2 == [namespace |-> "default", name |-> "diagnoser2"]

\* The node this agent's engine runs on, and the node names a spec may carry.
nodeName == "node1"
NodeNames == {"", "node1", "node2"}

\* The instant metav1.Now() returns; conditions set by earlier stages carry
\* an earlier one.
Times == {1}

\* ------------------------------------------------------- sequence helpers
Range(s) == {s[i] : i \in DOMAIN s}

NoRepeat(s) == \A i, j \in DOMAIN s : s[i] = s[j] => i = j

SeqsUpTo(S, n) == UNION {[1..k -> S] : k \in 0..n}

\* ------------------------------------------------------------ context blob
\* runtime.RawExtension pointer: nil, or raw bytes holding a JSON object,
\* modelled as its set of <<key, value>> pairs.
ContextNil == [tag |-> "nil", kv |-> {}]
ContextOf(kv) == [tag |-> "json", kv |-> kv]

\* ------------------------------------------------------------- conditions
\* GetAbnormalCondition: index of the entry of the given type, 0 when absent
\* (the code returns -1 and a nil pointer).
GetAbnormalCondition(conditions, condType) ==
  IF \E i \in DOMAIN conditions : conditions[i].type = condType
    THEN CHOOSE i \in DOMAIN conditions :
           /\ conditions[i].type = condType
           /\ \A j \in DOMAIN conditions : conditions[j].type = condType => i <= j
    ELSE 0

\* UpdateAbnormalCondition(status, condition) at the time now: returns the
\* status and whether it was mutated.  An entry of the same type and status
\* is left as it is; otherwise the condition, stamped with now, is appended
\* or takes the place of the entry of its type.  The first two definitions
\* are the variants that replace an entry of the same status and that keep
\* the time of a replaced entry.
UpdateAbnormalConditionAlways(status, condition, now) ==
  LET i == GetAbnormalCondition(status.conditions, condition.type)
      new == [condition EXCEPT !.lastTransitionTime = now]
  IN IF i = 0
       THEN [status |-> [status EXCEPT !.conditions = Append(@, new)],
             changed |-> TRUE]
       ELSE [status |-> [status EXCEPT !.conditions[i] = new],
             changed |-> TRUE]

\* A mutation of UpdateAbnormalCondition: a changed status is recorded as a
\* new entry behind the earlier one.
UpdateAbnormalConditionAppend(status, condition, now) ==
  LET i == GetAbnormalCondition(status.conditions, condition.type)
      new == [condition EXCEPT !.lastTransitionTime = now]
  IN IF i # 0 /\ status.conditions[i].status = condition.status
       THEN [status |-> status, changed |-> FALSE]
       ELSE [status |-> [status EXCEPT !.conditions = Append(@, new)],
             changed |-> TRUE]

UpdateAbnormalConditionKeepTime(status, condition, now) ==
  LET i == GetAbnormalCondition(status.conditions, condition.type)
      new == [condition EXCEPT !.lastTransitionTime = now]
  IN IF i = 0
       THEN [status |-> [status EXCEPT !.conditions = Append(@, new)],
             changed |-> TRUE]
       ELSE IF status.conditions[i].status = condition.status
         THEN [status |-> status, changed |-> FALSE]
         ELSE [status |->
                 [status EXCEPT
                    !.conditions[i] =
                       [new EXCEPT !.lastTransitionTime =
                          status.conditions[i].lastTransitionTime]],
               changed |-> TRUE]

UpdateAbnormalCondition(status, condition, now) ==
  LET i == GetAbnormalCondition(status.conditions, condition.type)
      new == [condition EXCEPT !.lastTransitionTime = now]
  IN IF i = 0
       THEN [status |-> [status EXCEPT !.conditions = Append(@, new)],
             changed |-> TRUE]
       ELSE IF status.conditions[i].status = condition.status
         THEN [status |-> status, changed |-> FALSE]
         ELSE [status |-> [status EXCEPT !.conditions[i] = new],
               changed |-> TRUE]

\* ------------------------------------------------------- embedded results
\* CommandExecutorStatus / ProfilerStatus appended by one embedded run: the
\* spec entry it ran, its type tag and the error field (empty on success).
ExecutorStatus(entry, err) ==
  [of |-> entry.id, type |-> entry.type, error |-> err]

\* ------------------------------------------------------ processor results
\* The fields ValidateAbnormalResult protects, in the order it compares them.
ProtectedFields ==
  <<"spec", "identifiable", "recoverable", "phase", "conditions", "message",
    "reason", "startTime", "diagnoser", "recoverer">>

Field(a, f) == IF f = "spec" THEN a.spec ELSE a.status[f]

\* The error ValidateAbnormalResult returns for a modified field; "" is nil.
ErrorOf(f) ==
  IF f = "spec"
    THEN "spec field of Abnormal must not be modified"
    ELSE CASE f = "identifiable" -> "identifiable filed of Abnormal must not be modified"
           [] f = "recoverable" -> "recoverable filed of Abnormal must not be modified"
           [] f = "phase" -> "phase filed of Abnormal must not be modified"
           [] f = "conditions" -> "conditions filed of Abnormal must not be modified"
           [] f = "message" -> "message filed of Abnormal must not be modified"
           [] f = "reason" -> "reason filed of Abnormal must not be modified"
           [] f = "startTime" -> "startTime filed of Abnormal must not be modified"
           [] f = "diagnoser" -> "diagnoser filed of Abnormal must not be modified"
           [] f = "recoverer" -> "recoverer filed of Abnormal must not be modified"

RECURSIVE FirstModified(_, _, _)
FirstModified(result, current, i) ==
  IF i > Len(ProtectedFields)
    THEN ""
    ELSE IF Field(result, ProtectedFields[i]) # Field(current, ProtectedFields[i])
      THEN ErrorOf(ProtectedFields[i])
      ELSE FirstModified(result, current, i + 1)

\* A mutation of ValidateAbnormalResult: the recoverer field is not compared.
ValidateAbnormalResultNoRecoverer(result, current) ==
  IF result.status.recoverer # current.status.recoverer
       /\ \A i \in DOMAIN ProtectedFields :
            ProtectedFields[i] # "recoverer"
              => Field(result, ProtectedFields[i]) = Field(current, ProtectedFields[i])
    THEN ""
    ELSE FirstModified(result, current, 1)

\* A mutation of ValidateAbnormalResult: the command-executor results are
\* protected too.
ValidateAbnormalResultStrict(result, current) ==
  IF FirstModified(result, current, 1) = ""
       /\ result.status.commandExecutors # current.status.commandExecutors
    THEN "commandExecutors filed of Abnormal must not be modified"
    ELSE FirstModified(result, current, 1)

\* ValidateAbnormalResult(result, current): nil ("") when no protected field
\* differs, otherwise the error of the first differing field.
ValidateAbnormalResult(result, current) == FirstModified(result, current, 1)

\* What a processor may do to the object it was sent: each edit rewrites
\* one field.
Edits ==
  {"spec.nodeName", "spec.assignedRecoverers", "identifiable", "recoverable",
   "phase", "conditions.forge", "conditions.clear", "message", "reason",
   "startTime", "diagnoser", "recoverer", "context", "commandExecutors",
   "profilers"}

EditOrder ==
  <<"spec.nodeName", "spec.assignedRecoverers", "identifiable", "recoverable",
    "phase", "conditions.forge", "conditions.clear", "message", "reason",
    "startTime", "diagnoser", "recoverer", "context", "commandExecutors",
    "profilers">>

Edit(a, e) ==
  CASE e = "spec.nodeName" ->
         [a EXCEPT !.spec.nodeName = IF @ = "node2" THEN "node1" ELSE "node2"]
    [] e = "spec.assignedRecoverers" ->
         [a EXCEPT !.spec.assignedRecoverers = IF @ = <<>> THEN <<R1>> ELSE <<>>]
    [] e = "identifiable" -> [a EXCEPT !.status.identifiable = ~@]
    [] e = "recoverable" -> [a EXCEPT !.status.recoverable = ~@]
    [] e = "phase" ->
         [a EXCEPT !.status.phase =
            IF @ = AbnormalSucceeded THEN AbnormalFailed ELSE AbnormalSucceeded]
    [] e = "conditions.forge" ->
         [a EXCEPT !.status.conditions =
            Append(@, [type |-> AbnormalRecovered, status |-> ConditionTrue,
                       lastTransitionTime |-> 0, reason |-> "forged",
                       message |-> ""])]
    [] e = "conditions.clear" -> [a EXCEPT !.status.conditions = <<>>]
    [] e = "message" ->
         [a EXCEPT !.status.message = IF @ = "" THEN "message" ELSE ""]
    [] e = "reason" ->
         [a EXCEPT !.status.reason = IF @ = "" THEN "reason" ELSE ""]
    [] e = "startTime" -> [a EXCEPT !.status.startTime = @ + 1]
    [] e = "diagnoser" ->
         [a EXCEPT !.status.diagnoser = IF @ = D2 THEN D1 ELSE D2]
    [] e = "recoverer" ->
         [a EXCEPT !.status.recoverer = IF @ = R1 THEN R2 ELSE R1]
    [] e = "context" ->
         [a EXCEPT !.status.context = ContextOf(@.kv \cup {<<"key1", "value1">>})]
    [] e = "commandExecutors" ->
         [a EXCEPT !.status.commandExecutors =
            IF @ = <<>>
              THEN <<[of |-> "remote", type |-> RecovererType, error |-> ""]>>
              ELSE <<>>]
    [] e = "profilers" ->
         [a EXCEPT !.status.profilers =
            IF @ = <<>>
              THEN <<[of |-> "remote", type |-> RecovererType, error |-> ""]>>
              ELSE <<>>]

RECURSIVE ApplyEdits(_, _, _)
ApplyEdits(a, K, i) ==
  IF i > Len(EditOrder)
    THEN a
    ELSE ApplyEdits(IF EditOrder[i] \in K THEN Edit(a, EditOrder[i]) ELSE a,
                    K, i + 1)

\* The Abnormal a processor answers with when it applies the edits K to the
\* payload it received.
Respond(a, K) == ApplyEdits(a, K, 1)

\* --------------------------------------------------------- node affinity
\* IsAbnormalNodeNameMatched(abnormal, nodeName).
IsAbnormalNodeNameMatched(a, node) ==
  a.spec.nodeName = "" \/ a.spec.nodeName = node

\* ------------------------------------------------------------------ queue
\* QueueAbnormal(ctx, channel, abnormal): the channel after the send and
\* whether the send failed (a saturated channel).
QueueAbnormal(channel, a) ==
  IF Len(channel) < ChanCap
    THEN [channel |-> Append(channel, a), err |-> FALSE]
    ELSE [channel |-> channel, err |-> TRUE]

\* ------------------------------------------------------------------ state
VARIABLES
  store,             \* the ResourceStore's Abnormal: [exists, obj]
  recoverers,        \* the Recoverers the cache lists, in list order
  recovererChainCh,  \* rc.recovererChainCh: queued Abnormal references
  stopCh,            \* the stop channel is closed
  pc,                \* where the consumer loop of Run stands
  abnormal,          \* the working copy of Run / SyncAbnormal / runRecovery
  idx,               \* position of runRecovery's loop over recoverers
  fetched,           \* the object Get returned at the start of this pass
  calls,             \* the requests sent to recoverers in this pass
  validated,         \* the last ValidateAbnormalResult call: result, current, err
  last               \* the engine's last step, what it did, the event recorded

vars ==
  <<store, recoverers, recovererChainCh, stopCh, pc, abnormal, idx,
    fetched, calls, validated, last>>

\* The reference the channel carries: Get reads only Name and Namespace of it.
Ref == "abnormal1"

Step(op, res) == [op |-> op, res |-> res, event |-> ""]

StepEvent(op, res, event) == [op |-> op, res |-> res, event |-> event]

\* ------------------------------------------------------------ input sets
AssignedLists == {s \in SeqsUpTo(RecovererNames, NumRecoverers) : NoRepeat(s)}

Catalogs == {s \in SeqsUpTo(RecovererNames, NumRecoverers) : NoRepeat(s)}

Cmd(id, type) == [id |-> id, type |-> type]

\* spec.commandExecutors and spec.profilers drawn together.
EmbeddedSpecs ==
  {[commandExecutors |-> <<>>, profilers |-> <<>>],
   [commandExecutors |-> <<Cmd("cmd1", DiagnoserType), Cmd("cmd2", RecovererType)>>,
    profilers |-> <<Cmd("prof1", RecovererType)>>]}

AbnormalSpecs ==
  {[nodeName |-> n, assignedRecoverers |-> a,
    commandExecutors |-> e.commandExecutors, profilers |-> e.profilers] :
     n \in NodeNames, a \in AssignedLists, e \in EmbeddedSpecs}

Cond(type, status, time) ==
  [type |-> type, status |-> status, lastTransitionTime |-> time,
   reason |-> "", message |-> ""]

\* The status the diagnoser chain leaves behind.
FreshStatus(phase) ==
  [identifiable |-> TRUE, recoverable |-> FALSE, phase |-> phase,
   conditions |-> <<Cond(InformationCollected, ConditionTrue, 0)>>,
   message |-> "", reason |-> "", startTime |-> 0, diagnoser |-> D1,
   recoverer |-> NoName, commandExecutors |-> <<>>, profilers |-> <<>>,
   context |-> ContextNil]

\* A status that already carries results of earlier stages or passes.
UsedStatus(phase, recovered) ==
  [FreshStatus(phase) EXCEPT
     !.recoverable = (recovered = ConditionFalse),
     !.conditions = Append(@, Cond(AbnormalRecovered, recovered, 0)),
     !.recoverer = R2,
     !.commandExecutors =
        <<[of |-> "cmd0", type |-> DiagnoserType, error |-> ""]>>,
     !.context = ContextOf({<<"key0", "value0">>})]

AbnormalStatuses ==
  {FreshStatus(p) : p \in Phases}
    \cup {UsedStatus(AbnormalRecovering, ConditionFalse)}

Abnormals ==
  {[spec |-> sp, status |-> st, resourceVersion |-> 1] :
     sp \in AbnormalSpecs, st \in AbnormalStatuses}

NoValidation == <<>>

\* diagnosisv1.Abnormal{}: what the locals of a pass hold outside a pass.
ZeroAbnormal ==
  [spec |-> [nodeName |-> "", assignedRecoverers |-> <<>>,
             commandExecutors |-> <<>>, profilers |-> <<>>],
   status |-> [identifiable |-> FALSE, recoverable |-> FALSE, phase |-> "",
               conditions |-> <<>>, message |-> "", reason |-> "",
               startTime |-> 0, diagnoser |-> NoName, recoverer |-> NoName,
               commandExecutors |-> <<>>, profilers |-> <<>>,
               context |-> ContextNil],
   resourceVersion |-> 0]

\* SyncAbnormal returns to the loop of Run: the locals of the pass are gone.
Return ==
  /\ pc' = "idle"
  /\ abnormal' = ZeroAbnormal
  /\ fetched' = ZeroAbnormal
  /\ calls' = <<>>
  /\ validated' = NoValidation
  /\ idx' = 0

Init ==
  /\ \E a \in Abnormals : store = [exists |-> TRUE, obj |-> a]
  /\ abnormal = ZeroAbnormal
  /\ fetched = ZeroAbnormal
  /\ recoverers \in Catalogs
  /\ recovererChainCh = <<Ref>>
  /\ stopCh = FALSE
  /\ pc = "start"
  /\ idx = 0
  /\ calls = <<>>
  /\ validated = NoValidation
  /\ last = Step("none", "")

\* ------------------------------------------------------- resource store
\* client.Get by name and namespace: "notfound" once the object is deleted,
\* "error" for any other failure, "" with the live object otherwise.
GetResults == IF store.exists THEN {"", "error"} ELSE {"notfound", "error"}

\* A mutation of UpdateResults: the store does not compare resourceVersions.
UpdateResultsAnyVersion(a) ==
  IF ~store.exists THEN {"notfound"} ELSE {"", "error"}

\* client.Status().Update(abnormal): the errors the store can answer with.
\* A deleted object and a stale resourceVersion are always refused; any
\* update may also fail for a transient reason.
UpdateResults(a) ==
  IF ~store.exists
    THEN {"notfound"}
    ELSE IF store.obj.resourceVersion # a.resourceVersion
      THEN {"conflict"}
      ELSE {"", "error"}

\* The stored object after an applied status update: the status subresource
\* is replaced and the version advances.
Stored(a) ==
  [exists |-> TRUE,
   obj |-> [spec |-> store.obj.spec, status |-> a.status,
            resourceVersion |-> store.obj.resourceVersion + 1]]

\* ------------------------------------------------------------- Run: start
\* Run waits for the caches to sync and returns when they do not.
\* A mutation of WaitForCacheSync: Run goes on to its loop whatever the
\* cache answered.
WaitForCacheSyncIgnored ==
  /\ pc = "start"
  /\ \E synced \in BOOLEAN :
       /\ pc' = "idle"
       /\ last' = Step("WaitForCacheSync", IF synced THEN "synced" ELSE "failed")
  /\ UNCHANGED <<store, recoverers, recovererChainCh, stopCh, abnormal,
                 idx, fetched, calls, validated>>

WaitForCacheSync ==
  /\ pc = "start"
  /\ \E synced \in BOOLEAN :
       /\ pc' = IF synced THEN "idle" ELSE "returned"
       /\ last' = Step("WaitForCacheSync", IF synced THEN "synced" ELSE "failed")
  /\ UNCHANGED <<store, recoverers, recovererChainCh, stopCh, abnormal,
                 idx, fetched, calls, validated>>

\* case <-stopCh: return.
RunStop ==
  /\ pc = "idle"
  /\ stopCh
  /\ pc' = "returned"
  /\ last' = Step("stop", "")
  /\ UNCHANGED <<store, recoverers, recovererChainCh, stopCh, abnormal,
                 idx, fetched, calls, validated>>

\* --------------------------------------------- Run: dequeue, Get, filters
\* case abnormal := <-rc.recovererChainCh: the receive, before the call of Get.
RunReceive ==
  /\ pc = "idle"
  /\ recovererChainCh # <<>>
  /\ recovererChainCh' = Tail(recovererChainCh)
  /\ pc' = "Get"
  /\ UNCHANGED <<store, recoverers, stopCh, abnormal, idx, fetched, calls,
                 validated, last>>

\* continue: the received Abnormal is not processed.
Dropped(why) ==
  /\ pc' = "idle"
  /\ last' = Step("Get", why)
  /\ UNCHANGED <<store, recoverers, recovererChainCh, stopCh, abnormal,
                 idx, fetched, calls, validated>>

\* Get fails and the object is gone: continue.
GetNotFound ==
  /\ "notfound" \in GetResults
  /\ Dropped("notfound")

\* A mutation of GetError: the reference is dropped as for "not found".
GetErrorDropped ==
  /\ "error" \in GetResults
  /\ Dropped("error-lost")

\* Get fails otherwise: the dequeued copy is sent back to the channel; an
\* error of the send is only logged.
GetError ==
  /\ "error" \in GetResults
  /\ LET q == QueueAbnormal(recovererChainCh, Ref)
     IN /\ recovererChainCh' = q.channel
        /\ last' = Step("Get", IF q.err THEN "error-lost" ELSE "error-requeued")
  /\ pc' = "idle"
  /\ UNCHANGED <<store, recoverers, stopCh, abnormal, idx, fetched,
                 calls, validated>>

\* Only process abnormal in AbnormalRecovering phase.
GetOtherPhase ==
  /\ "" \in GetResults
  /\ store.obj.status.phase # AbnormalRecovering
  /\ Dropped("phase")

GetOtherNode ==
  /\ "" \in GetResults
  /\ store.obj.status.phase = AbnormalRecovering
  /\ ~IsAbnormalNodeNameMatched(store.obj, nodeName)
  /\ Dropped("node")

Accepted(a) ==
  /\ abnormal' = a
  /\ fetched' = a
  /\ calls' = <<>>
  /\ validated' = NoValidation
  /\ idx' = 0
  /\ pc' = "SyncAbnormal"
  /\ last' = Step("Get", "ok")
  /\ UNCHANGED <<store, recoverers, recovererChainCh, stopCh>>

\* A mutation of GetMatched: the node filter is not applied.
GetMatchedAnyNode ==
  /\ "" \in GetResults
  /\ store.obj.status.phase = AbnormalRecovering
  /\ Accepted(store.obj)

\* A mutation of GetMatched: the phase filter is not applied.
GetMatchedAnyPhase ==
  /\ "" \in GetResults
  /\ IsAbnormalNodeNameMatched(store.obj, nodeName)
  /\ Accepted(store.obj)

\* A mutation of GetMatched: the phase check lets every Abnormal through
\* that has left the two earlier stages.
GetMatchedPastDiagnosing ==
  /\ "" \in GetResults
  /\ store.obj.status.phase \notin {InformationCollecting, AbnormalDiagnosing}
  /\ IsAbnormalNodeNameMatched(store.obj, nodeName)
  /\ Accepted(store.obj)

GetMatched ==
  /\ "" \in GetResults
  /\ store.obj.status.phase = AbnormalRecovering
  /\ IsAbnormalNodeNameMatched(store.obj, nodeName)
  /\ Accepted(store.obj)

\* The answer of Get, up to the call of SyncAbnormal.
RunGet ==
  /\ pc = "Get"
  /\ \/ GetNotFound
     \/ GetError
     \/ GetOtherPhase
     \/ GetOtherNode
     \/ GetMatched

\* ------------------------------------------------------------ SyncAbnormal
\* A mutation of addAbnormalToRecovererChainQueue: nothing is sent.
addAbnormalToRecovererChainQueueNoSend(op, why) ==
  /\ recovererChainCh' = recovererChainCh
  /\ last' = Step(op, why \o "-lost")

\* addAbnormalToRecovererChainQueue: the send may fail, which is only logged.
addAbnormalToRecovererChainQueue(op, why) ==
  LET q == QueueAbnormal(recovererChainCh, Ref)
  IN /\ recovererChainCh' = q.channel
     /\ last' = Step(op, IF q.err THEN why \o "-lost" ELSE why \o "-requeued")

\* A mutation of ListError: the pass ends and the Abnormal is not queued
\* again.
ListErrorGivesUp ==
  /\ last' = Step("listRecoverers", "error-lost")
  /\ Return
  /\ UNCHANGED <<store, recoverers, recovererChainCh, stopCh>>

\* listRecoverers fails: the Abnormal is queued again and the pass ends.
ListError ==
  /\ addAbnormalToRecovererChainQueue("listRecoverers", "error")
  /\ Return
  /\ UNCHANGED <<store, recoverers, stopCh>>

ListOk ==
  /\ pc' = "runRecovery"
  /\ last' = Step("listRecoverers", "ok")
  /\ UNCHANGED <<store, recoverers, recovererChainCh, stopCh, abnormal,
                 idx, fetched, calls, validated>>

SyncAbnormal ==
  /\ pc = "SyncAbnormal"
  /\ \/ ListError
     \/ ListOk

\* ------------------------------------------------- runRecovery: embedded
EmbeddedErrors == {"", "exit status 1"}

\* A mutation of RunEmbedded: the entries of every type are run.
RunEmbeddedAnyType(specs, errs, i) ==
  [j \in 1..Len(specs) |-> ExecutorStatus(specs[j], errs[j])]

\* A mutation of RunEmbedded: a failing run ends the runs of its array.
RECURSIVE RunEmbeddedUntilError(_, _, _)
RunEmbeddedUntilError(specs, errs, i) ==
  IF i > Len(specs)
    THEN <<>>
    ELSE IF specs[i].type # RecovererType
      THEN RunEmbeddedUntilError(specs, errs, i + 1)
      ELSE <<ExecutorStatus(specs[i], errs[i])>>
           \o (IF errs[i] = ""
                 THEN RunEmbeddedUntilError(specs, errs, i + 1)
                 ELSE <<>>)

\* The status entries appended for the entries of Recoverer type, in spec
\* order, whether the run failed or not.
RECURSIVE RunEmbedded(_, _, _)
RunEmbedded(specs, errs, i) ==
  IF i > Len(specs)
    THEN <<>>
    ELSE (IF specs[i].type = RecovererType
            THEN <<ExecutorStatus(specs[i], errs[i])>>
            ELSE <<>>)
         \o RunEmbedded(specs, errs, i + 1)

\* A mutation of SkipRecovery: an empty list makes every recoverer eligible.
SkipRecoveryNever(a) == FALSE

\* Skip recovery if AssignedRecoverers is empty.
SkipRecovery(a) == Len(a.spec.assignedRecoverers) = 0

\* A mutation of LoopAt: the loop gives up before the last recoverer.
LoopAtEarly(i) ==
  IF i >= Len(recoverers) THEN "setAbnormalFailed" ELSE "dispatch"

\* The loop over recoverers from position i on: its body, or past its end.
LoopAt(i) == IF i > Len(recoverers) THEN "setAbnormalFailed" ELSE "dispatch"

\* runRecovery up to its loop: the command executors and profilers of
\* Recoverer type are run, then recovery is skipped or the loop entered.
\* A mutation of runRecoveryEmbedded: the skip is decided first, and the
\* embedded processors run only when recovery is not skipped.
runRecoverySkipFirst ==
  /\ pc = "runRecovery"
  /\ IF SkipRecovery(abnormal)
       THEN /\ abnormal' = abnormal
            /\ pc' = "setAbnormalSucceeded"
            /\ idx' = 0
            /\ last' = StepEvent("runRecovery", "skip", "SkippingRecovery")
       ELSE /\ \E ce \in [DOMAIN abnormal.spec.commandExecutors -> EmbeddedErrors],
                  pe \in [DOMAIN abnormal.spec.profilers -> EmbeddedErrors] :
                 abnormal' =
                   [abnormal EXCEPT
                      !.status.commandExecutors =
                         @ \o RunEmbedded(abnormal.spec.commandExecutors, ce, 1),
                      !.status.profilers =
                         @ \o RunEmbedded(abnormal.spec.profilers, pe, 1)]
            /\ pc' = LoopAt(1)
            /\ idx' = 1
            /\ last' = Step("runRecovery", "embedded")
  /\ UNCHANGED <<store, recoverers, recovererChainCh, stopCh, fetched,
                 calls, validated>>

runRecoveryEmbedded ==
  /\ pc = "runRecovery"
  /\ \E ce \in [DOMAIN abnormal.spec.commandExecutors -> EmbeddedErrors],
        pe \in [DOMAIN abnormal.spec.profilers -> EmbeddedErrors] :
       LET ran ==
             [abnormal EXCEPT
                !.status.commandExecutors =
                   @ \o RunEmbedded(abnormal.spec.commandExecutors, ce, 1),
                !.status.profilers =
                   @ \o RunEmbedded(abnormal.spec.profilers, pe, 1)]
       IN /\ abnormal' = ran
          /\ IF SkipRecovery(ran)
               THEN /\ pc' = "setAbnormalSucceeded"
                    /\ idx' = 0
                    /\ last' = StepEvent("runRecovery", "skip", "SkippingRecovery")
               ELSE /\ pc' = LoopAt(1)
                    /\ idx' = 1
                    /\ last' = Step("runRecovery", "embedded")
  /\ UNCHANGED <<store, recoverers, recovererChainCh, stopCh, fetched,
                 calls, validated>>

\* ------------------------------------------------- runRecovery: the loop
\* The edits the recoverers of this model answer with.
Responses ==
  {{}, {"context"}, {"commandExecutors", "profilers"},
   {"phase"}, {"recoverer", "context"}}

\* A mutation of Matched: names are compared without their namespaces.
MatchedByName(recoverer, assigned) ==
  \E i \in DOMAIN assigned : recoverer.name = assigned[i].name

\* Execute only matched recoverers.
Matched(recoverer, assigned) ==
  \E i \in DOMAIN assigned :
    /\ recoverer.name = assigned[i].name
    /\ recoverer.namespace = assigned[i].namespace

\* A mutation of Call: the requests go to the assigned recoverers in the
\* order of spec.assignedRecoverers.
CallInAssignedOrder(recoverer, result) ==
  [recoverer |-> abnormal.spec.assignedRecoverers[Len(calls) + 1],
   result |-> result]

\* The request sent to a recoverer and what came of it.
Call(recoverer, result) == [recoverer |-> recoverer, result |-> result]

\* A mutation of Continue: a failure leaves the loop (break for continue).
ContinueBreak(op, res) ==
  /\ idx' = idx + 1
  /\ pc' = "setAbnormalFailed"
  /\ last' = Step(op, res)

\* continue: the loop goes on with the next recoverer of the list.
Continue(op, res) ==
  /\ idx' = idx + 1
  /\ pc' = LoopAt(idx + 1)
  /\ last' = Step(op, res)

\* if !matched { continue }
DispatchUnmatched ==
  /\ ~Matched(recoverers[idx], abnormal.spec.assignedRecoverers)
  /\ Continue("dispatch", "unmatched")
  /\ UNCHANGED <<store, recoverers, recovererChainCh, stopCh, abnormal,
                 fetched, calls, validated>>

\* DoHTTPRequestWithAbnormal returns an error (the recoverer is unreachable,
\* the call times out, the answer is not 200 or cannot be decoded): continue.
DispatchFailed ==
  /\ Matched(recoverers[idx], abnormal.spec.assignedRecoverers)
  /\ Continue("dispatch", "failed")
  /\ calls' = Append(calls, Call(recoverers[idx], "failed"))
  /\ validated' = NoValidation
  /\ UNCHANGED <<store, recoverers, recovererChainCh, stopCh, abnormal,
                 fetched>>

Validation(result, current) ==
  <<[result |-> result, current |-> current,
     err |-> ValidateAbnormalResult(result, current)]>>

\* The recoverer answers and ValidateAbnormalResult refuses the result: the
\* result is discarded, continue.
\* A mutation of DispatchRejected: the context of the rejected result stays
\* in the working copy.
DispatchRejectedKeepsContext ==
  /\ Matched(recoverers[idx], abnormal.spec.assignedRecoverers)
  /\ \E K \in Responses :
       /\ ValidateAbnormalResult(Respond(abnormal, K), abnormal) # ""
       /\ abnormal' = [abnormal EXCEPT
                         !.status.context = Respond(abnormal, K).status.context]
  /\ validated' = NoValidation
  /\ calls' = Append(calls, Call(recoverers[idx], "rejected"))
  /\ Continue("dispatch", "rejected")
  /\ UNCHANGED <<store, recoverers, recovererChainCh, stopCh, fetched>>

DispatchRejected ==
  /\ Matched(recoverers[idx], abnormal.spec.assignedRecoverers)
  /\ \E K \in Responses :
       ValidateAbnormalResult(Respond(abnormal, K), abnormal) # ""
  /\ validated' = NoValidation
  /\ calls' = Append(calls, Call(recoverers[idx], "rejected"))
  /\ Continue("dispatch", "rejected")
  /\ UNCHANGED <<store, recoverers, recovererChainCh, stopCh, abnormal,
                 fetched>>

\* A mutation of Adopt: the returned status is dropped.
AdoptNothing(a, result, recoverer) ==
  [a EXCEPT !.status.recoverer = recoverer]

\* abnormal.Status = result.Status, then Status.Recoverer names the recoverer.
\* A mutation of Adopt: the status of the result is taken as it is, with the
\* recoverer the result names.
AdoptStatusOnly(a, result, recoverer) == [a EXCEPT !.status = result.status]

Adopt(a, result, recoverer) ==
  [a EXCEPT !.status = [result.status EXCEPT !.recoverer = recoverer]]

\* A mutation of DispatchAccepted: the loop goes on after a valid result.
DispatchAcceptedContinue ==
  /\ Matched(recoverers[idx], abnormal.spec.assignedRecoverers)
  /\ \E K \in Responses :
       /\ ValidateAbnormalResult(Respond(abnormal, K), abnormal) = ""
       /\ validated' = Validation(Respond(abnormal, K), abnormal)
       /\ abnormal' = Adopt(abnormal, Respond(abnormal, K), recoverers[idx])
  /\ calls' = Append(calls, Call(recoverers[idx], "accepted"))
  /\ Continue("dispatch", "accepted")
  /\ UNCHANGED <<store, recoverers, recovererChainCh, stopCh, fetched>>

\* The result is valid: it is adopted and the loop is left.
DispatchAccepted ==
  /\ Matched(recoverers[idx], abnormal.spec.assignedRecoverers)
  /\ \E K \in Responses :
       /\ ValidateAbnormalResult(Respond(abnormal, K), abnormal) = ""
       /\ validated' = Validation(Respond(abnormal, K), abnormal)
       /\ abnormal' = Adopt(abnormal, Respond(abnormal, K), recoverers[idx])
  /\ calls' = Append(calls, Call(recoverers[idx], "accepted"))
  /\ pc' = "setAbnormalSucceeded"
  /\ idx' = idx
  /\ last' = Step("dispatch", "accepted")
  /\ UNCHANGED <<store, recoverers, recovererChainCh, stopCh, fetched>>

\* One iteration of for _, recoverer := range recoverers.
runRecoveryDispatch ==
  /\ pc = "dispatch"
  /\ \/ DispatchUnmatched
     \/ DispatchFailed
     \/ DispatchRejected
     \/ DispatchAccepted

\* ------------------------------------- setAbnormalSucceeded / Failed
\* Phase, Recoverable and the Recovered condition as setAbnormalSucceeded and
\* setAbnormalFailed set them before the update.
Terminal(a, phase, recoverable, condStatus, now) ==
  [a EXCEPT
     !.status =
        UpdateAbnormalCondition(
          [a.status EXCEPT !.phase = phase, !.recoverable = recoverable],
          [type |-> AbnormalRecovered, status |-> condStatus,
           lastTransitionTime |-> 0, reason |-> "", message |-> ""],
          now).status]

Succeeded(a, now) == Terminal(a, AbnormalSucceeded, TRUE, ConditionTrue, now)

\* A mutation of Failed: Status.Recoverable is left as the pass holds it.
FailedKeepsRecoverable(a, now) ==
  Terminal(a, AbnormalFailed, a.status.recoverable, ConditionFalse, now)

Failed(a, now) == Terminal(a, AbnormalFailed, FALSE, ConditionFalse, now)

\* The pass left the loop with a valid result of a recoverer.
ByRecoverer == calls # <<>> /\ calls[Len(calls)].result = "accepted"

\* A mutation of UpdateApplied: the update is applied whatever the store
\* would answer.
UpdateAppliedUnchecked(op, a, event) ==
  /\ store' = Stored(a)
  /\ last' = StepEvent(op, "stored", event)
  /\ UNCHANGED recovererChainCh

\* Status().Update is applied; runRecovery records its event and returns nil.
UpdateApplied(op, a, event) ==
  /\ "" \in UpdateResults(a)
  /\ store' = Stored(a)
  /\ last' = StepEvent(op, "stored", event)
  /\ UNCHANGED recovererChainCh

\* A mutation of UpdateRefused: the refused update leaves its result arrays
\* in the stored Abnormal.
UpdateRefusedPersists(op, a) ==
  /\ \E res \in UpdateResults(a) \ {""} :
       addAbnormalToRecovererChainQueue(op, res)
  /\ store' = IF store.exists
                THEN [store EXCEPT
                        !.obj.status.commandExecutors = a.status.commandExecutors,
                        !.obj.status.profilers = a.status.profilers]
                ELSE store

\* Status().Update fails: the error travels up to SyncAbnormal, which sends
\* the Abnormal back to the channel.
UpdateRefused(op, a) ==
  /\ \E res \in UpdateResults(a) \ {""} :
       addAbnormalToRecovererChainQueue(op, res)
  /\ UNCHANGED store

setAbnormalSucceeded ==
  /\ pc = "setAbnormalSucceeded"
  /\ \E now \in Times :
       \/ UpdateApplied("setAbnormalSucceeded", Succeeded(abnormal, now),
                           IF ByRecoverer THEN "Recovered" ELSE "")
       \/ UpdateRefused("setAbnormalSucceeded", Succeeded(abnormal, now))
  /\ Return
  /\ UNCHANGED <<recoverers, stopCh>>

\* A mutation of setAbnormalFailed with its caller: the FailedRecover event
\* is recorded whether or not the update was applied.
setAbnormalFailedEventAlways ==
  /\ pc = "setAbnormalFailed"
  /\ \E now \in Times :
       \/ UpdateApplied("setAbnormalFailed", Failed(abnormal, now),
                           "FailedRecover")
       \/ /\ \E res \in UpdateResults(Failed(abnormal, now)) \ {""} :
                LET q == QueueAbnormal(recovererChainCh, Ref)
                IN /\ recovererChainCh' = q.channel
                   /\ last' = StepEvent("setAbnormalFailed",
                                        IF q.err THEN res \o "-lost"
                                                 ELSE res \o "-requeued",
                                        "FailedRecover")
          /\ UNCHANGED store
  /\ Return
  /\ UNCHANGED <<recoverers, stopCh>>

setAbnormalFailed ==
  /\ pc = "setAbnormalFailed"
  /\ \E now \in Times :
       \/ UpdateApplied("setAbnormalFailed", Failed(abnormal, now),
                           "FailedRecover")
       \/ UpdateRefused("setAbnormalFailed", Failed(abnormal, now))
  /\ Return
  /\ UNCHANGED <<recoverers, stopCh>>

\* ------------------------------------------------------------ environment
\* A producer (the diagnoser chain, a controller) sends a reference.
Produce ==
  /\ Len(recovererChainCh) < ChanCap
  /\ recovererChainCh' = Append(recovererChainCh, Ref)
  /\ UNCHANGED <<store, recoverers, stopCh, pc, abnormal, idx, fetched,
                 calls, validated, last>>

\* The process-wide stop signal.
Shutdown ==
  /\ ~stopCh
  /\ stopCh' = TRUE
  /\ UNCHANGED <<store, recoverers, recovererChainCh, pc, abnormal, idx,
                 fetched, calls, validated, last>>

\* The Abnormal is deleted from the store.
DeleteAbnormal ==
  /\ store.exists
  /\ store' = [exists |-> FALSE, obj |-> ZeroAbnormal]
  /\ UNCHANGED <<recoverers, recovererChainCh, stopCh, pc, abnormal,
                 idx, fetched, calls, validated, last>>

\* The recoverer chain of another node's agent stores a terminal status for
\* an Abnormal bound to no node.
OtherAgent ==
  /\ store.exists
  /\ store.obj.spec.nodeName = ""
  /\ store.obj.status.phase = AbnormalRecovering
  /\ \E now \in Times, ok \in BOOLEAN :
       store' = Stored(IF ok THEN Succeeded(store.obj, now)
                             ELSE Failed(store.obj, now))
  /\ UNCHANGED <<recoverers, recovererChainCh, stopCh, pc, abnormal, idx,
                 fetched, calls, validated, last>>

\* The engine while the process runs: the stop channel stays open.
Next ==
  \/ WaitForCacheSync
  \/ RunReceive
  \/ RunGet
  \/ SyncAbnormal
  \/ runRecoveryEmbedded
  \/ runRecoveryDispatch
  \/ setAbnormalSucceeded
  \/ setAbnormalFailed
  \/ Produce
  \/ DeleteAbnormal
  \/ OtherAgent

Spec == Init /\ [][Next]_vars

\* The engine with the stop signal: the select of Run takes either case.
NextStop ==
  \/ WaitForCacheSync
  \/ RunStop
  \/ RunReceive
  \/ RunGet
  \/ SyncAbnormal
  \/ runRecoveryEmbedded
  \/ runRecoveryDispatch
  \/ setAbnormalSucceeded
  \/ setAbnormalFailed
  \/ Produce
  \/ Shutdown
  \/ DeleteAbnormal
  \/ OtherAgent

SpecStop == Init /\ [][NextStop]_vars

\* ------------------------------------------------- recovererChainImpl
\* The variant of the engine whose channel carries the Abnormal objects
\* themselves: no Get, no node filter, no embedded processors, a skipRecovery
\* flag in the spec, and a blocking send on error.
ImplSpecs ==
  {[nodeName |-> "", assignedRecoverers |-> a, commandExecutors |-> <<>>,
    profilers |-> <<>>, skipRecovery |-> skip] :
     a \in AssignedLists, skip \in BOOLEAN}

ImplStatuses ==
  {FreshStatus(AbnormalRecovering), FreshStatus(AbnormalDiagnosing),
   UsedStatus(AbnormalRecovering, ConditionFalse)}

ImplAbnormals ==
  {[spec |-> sp, status |-> st, resourceVersion |-> 1] :
     sp \in ImplSpecs, st \in ImplStatuses}

InitImpl ==
  /\ \E a \in ImplAbnormals : store = [exists |-> TRUE, obj |-> a]
  /\ abnormal = ZeroAbnormal
  /\ fetched = ZeroAbnormal
  /\ recoverers \in Catalogs
  /\ recovererChainCh = <<>>
  /\ stopCh = FALSE
  /\ pc = "start"
  /\ idx = 0
  /\ calls = <<>>
  /\ validated = NoValidation
  /\ last = Step("none", "")

\* SyncAbnormal returns to Run.
ReturnImpl ==
  /\ pc' = "range"
  /\ abnormal' = ZeroAbnormal
  /\ fetched' = ZeroAbnormal
  /\ calls' = <<>>
  /\ idx' = 0

\* SyncAbnormal is called with an Abnormal.
Enter(a) ==
  /\ abnormal' = a
  /\ fetched' = a
  /\ calls' = <<>>
  /\ idx' = 0
  /\ pc' = "SyncAbnormal"

\* Run: wait for the caches to sync.
WaitForCacheSyncImpl ==
  /\ pc = "start"
  /\ \E synced \in BOOLEAN :
       /\ pc' = IF synced THEN "ListAbnormals" ELSE "returned"
       /\ last' = Step("WaitForCacheSync", IF synced THEN "synced" ELSE "failed")
  /\ UNCHANGED <<store, recoverers, recovererChainCh, stopCh, abnormal,
                 idx, fetched, calls, validated>>

\* Run: list abnormals on start and sync them; a list error ends Run.
ListAbnormals ==
  /\ pc = "ListAbnormals"
  /\ \/ /\ pc' = "returned"
        /\ last' = Step("ListAbnormals", "error")
        /\ UNCHANGED <<abnormal, fetched, calls, idx>>
     \/ /\ store.exists
        /\ Enter(store.obj)
        /\ last' = Step("ListAbnormals", "ok")
     \/ /\ ~store.exists
        /\ pc' = "range"
        /\ last' = Step("ListAbnormals", "ok")
        /\ UNCHANGED <<abnormal, fetched, calls, idx>>
  /\ UNCHANGED <<store, recoverers, recovererChainCh, stopCh, validated>>

\* for abnormal := range rc.recovererChainCh.
RangeRecv ==
  /\ pc = "range"
  /\ recovererChainCh # <<>>
  /\ recovererChainCh' = Tail(recovererChainCh)
  /\ Enter(Head(recovererChainCh))
  /\ last' = Step("range", "received")
  /\ UNCHANGED <<store, recoverers, stopCh, validated>>

\* rc.recovererChainCh <- abnormal in SyncAbnormal: the send blocks while the
\* channel is full, and Run, which is the only receiver, is the sender.
SendBack(a, op, why) ==
  IF Len(recovererChainCh) < ChanCap
    THEN /\ recovererChainCh' = Append(recovererChainCh, a)
         /\ last' = Step(op, why \o "-requeued")
         /\ ReturnImpl
    ELSE /\ recovererChainCh' = recovererChainCh
         /\ last' = Step(op, why \o "-blocked")
         /\ pc' = "blocked"
         /\ UNCHANGED <<abnormal, fetched, calls, idx>>

\* SyncAbnormal up to the call of RunRecovery.
SyncAbnormalImpl ==
  /\ pc = "SyncAbnormal"
  /\ \/ /\ abnormal.status.phase # AbnormalRecovering
        /\ last' = Step("SyncAbnormal", "ignored")
        /\ ReturnImpl
        /\ UNCHANGED recovererChainCh
     \/ /\ abnormal.status.phase = AbnormalRecovering
        /\ SendBack(abnormal, "ListRecoverers", "error")
     \/ /\ abnormal.status.phase = AbnormalRecovering
        /\ pc' = "RunRecovery"
        /\ last' = Step("ListRecoverers", "ok")
        /\ UNCHANGED <<recovererChainCh, abnormal, fetched, calls, idx>>
  /\ UNCHANGED <<store, recoverers, stopCh, validated>>

LoopAtImpl(i) ==
  IF i > Len(recoverers) THEN "SetAbnormalFailed" ELSE "RunRecovery.loop"

\* A mutation of RunRecovery: the SkipRecovery flag is not read.
RunRecoveryNoSkip ==
  /\ pc = "RunRecovery"
  /\ pc' = LoopAtImpl(1)
  /\ idx' = 1
  /\ last' = Step("RunRecovery", "loop")
  /\ UNCHANGED <<store, recoverers, recovererChainCh, stopCh, abnormal,
                 fetched, calls, validated>>

\* RunRecovery up to its loop: skip recovery if SkipRecovery is true.
RunRecovery ==
  /\ pc = "RunRecovery"
  /\ IF abnormal.spec.skipRecovery
       THEN /\ pc' = "SetAbnormalSucceeded"
            /\ idx' = 0
            /\ last' = Step("RunRecovery", "skip")
       ELSE /\ pc' = LoopAtImpl(1)
            /\ idx' = 1
            /\ last' = Step("RunRecovery", "loop")
  /\ UNCHANGED <<store, recoverers, recovererChainCh, stopCh, abnormal,
                 fetched, calls, validated>>

\* Execute only matched recoverers if AssignedRecoverers is not empty.
MatchedImpl(recoverer, assigned) ==
  Len(assigned) = 0 \/ Matched(recoverer, assigned)

ContinueImpl(res) ==
  /\ idx' = idx + 1
  /\ pc' = LoopAtImpl(idx + 1)
  /\ last' = Step("RunRecovery", res)

\* One iteration of for _, recoverer := range recoverers in RunRecovery.
RunRecoveryLoop ==
  /\ pc = "RunRecovery.loop"
  /\ \/ /\ ~MatchedImpl(recoverers[idx], abnormal.spec.assignedRecoverers)
        /\ ContinueImpl("unmatched")
        /\ UNCHANGED <<abnormal, calls>>
     \/ /\ MatchedImpl(recoverers[idx], abnormal.spec.assignedRecoverers)
        /\ ContinueImpl("failed")
        /\ calls' = Append(calls, Call(recoverers[idx], "failed"))
        /\ UNCHANGED abnormal
     \/ /\ MatchedImpl(recoverers[idx], abnormal.spec.assignedRecoverers)
        /\ \E K \in Responses :
             ValidateAbnormalResult(Respond(abnormal, K), abnormal) # ""
        /\ ContinueImpl("rejected")
        /\ calls' = Append(calls, Call(recoverers[idx], "rejected"))
        /\ UNCHANGED abnormal
     \/ /\ MatchedImpl(recoverers[idx], abnormal.spec.assignedRecoverers)
        /\ \E K \in Responses :
             ValidateAbnormalResult(Respond(abnormal, K), abnormal) = ""
        /\ abnormal' = [abnormal EXCEPT !.status.recoverer = recoverers[idx]]
        /\ calls' = Append(calls, Call(recoverers[idx], "accepted"))
        /\ pc' = "SetAbnormalSucceeded"
        /\ idx' = idx
        /\ last' = Step("RunRecovery", "accepted")
  /\ UNCHANGED <<store, recoverers, recovererChainCh, stopCh, fetched,
                 validated>>

\* Status().Update of SetAbnormalSucceeded / SetAbnormalFailed: applied, or
\* refused, and then SyncAbnormal sends the Abnormal RunRecovery returned,
\* which carries the phase just set.
UpdateImpl(op, a) ==
  \/ /\ "" \in UpdateResults(a)
     /\ store' = Stored(a)
     /\ last' = Step(op, "stored")
     /\ ReturnImpl
     /\ UNCHANGED recovererChainCh
  \/ /\ \E res \in UpdateResults(a) \ {""} : SendBack(a, op, res)
     /\ UNCHANGED store

SetAbnormalSucceeded ==
  /\ pc = "SetAbnormalSucceeded"
  /\ \E now \in Times :
       UpdateImpl("SetAbnormalSucceeded", Succeeded(abnormal, now))
  /\ UNCHANGED <<recoverers, stopCh, validated>>

SetAbnormalFailed ==
  /\ pc = "SetAbnormalFailed"
  /\ \E now \in Times :
       UpdateImpl("SetAbnormalFailed", Failed(abnormal, now))
  /\ UNCHANGED <<recoverers, stopCh, validated>>

\* A producer sends the Abnormal as the store holds it.
ProduceImpl ==
  /\ store.exists
  /\ Len(recovererChainCh) < ChanCap
  /\ recovererChainCh' = Append(recovererChainCh, store.obj)
  /\ UNCHANGED <<store, recoverers, stopCh, pc, abnormal, idx, fetched,
                 calls, validated, last>>

NextImpl ==
  \/ WaitForCacheSyncImpl
  \/ ListAbnormals
  \/ RangeRecv
  \/ SyncAbnormalImpl
  \/ RunRecovery
  \/ RunRecoveryLoop
  \/ SetAbnormalSucceeded
  \/ SetAbnormalFailed
  \/ ProduceImpl
  \/ DeleteAbnormal
  \/ OtherAgent

SpecImpl == InitImpl /\ [][NextImpl]_vars

\* ------------------------------------------------ properties of the engine
\* The step of setAbnormalSucceeded / setAbnormalFailed whose update the
\* store applied.
StoredBy(op) == pc = op /\ pc' = "idle" /\ store' # store

\* The step of setAbnormalSucceeded / setAbnormalFailed whose update the
\* store refused.
RefusedBy(op) == pc = op /\ pc' = "idle" /\ store' = store

\* The iteration of the loop that sent a request and did not get a valid
\* result.
DispatchFailure ==
  /\ pc = "dispatch"
  /\ Len(calls') = Len(calls) + 1
  /\ calls'[Len(calls')].result \in {"failed", "rejected"}

\* The status fields a recoverer may not touch and the engine sets itself.
EngineFields == {"phase", "recoverable", "conditions", "recoverer"}

\* C3: when an assigned recoverer's response passes validation, the engine
\* takes over the returned status with status.recoverer naming that recoverer
\* and goes on to setAbnormalSucceeded; the update the store applies carries
\* the returned status, that recoverer and phase Succeeded.
C3_AdoptsResult ==
  [][/\ (pc = "dispatch" /\ pc' = "setAbnormalSucceeded") =>
          /\ validated'[1].err = ""
          /\ calls'[Len(calls')].recoverer = recoverers[idx]
          /\ abnormal'.status.recoverer = recoverers[idx]
          /\ \A f \in DOMAIN abnormal.status \ {"recoverer"} :
               abnormal'.status[f] = validated'[1].result.status[f]
     /\ (StoredBy("setAbnormalSucceeded") /\ ByRecoverer) =>
          LET who == calls[Len(calls)].recoverer
              result == validated[1].result
          IN /\ store'.obj.status.phase = AbnormalSucceeded
             /\ store'.obj.status.recoverer = who
             /\ who.name = recoverers[idx].name
             /\ who.namespace = recoverers[idx].namespace
             /\ who \in Range(fetched.spec.assignedRecoverers)
             /\ \A f \in DOMAIN store'.obj.status \ EngineFields :
                  store'.obj.status[f] = result.status[f]]_vars

\* C3 witness: recoverer1 of namespace default answered with an added context
\* key and the Abnormal is stored Succeeded with that context and recoverer.
C3_Witness ==
  /\ last = StepEvent("setAbnormalSucceeded", "stored", "Recovered")
  /\ store.exists
  /\ store.obj.status.phase = AbnormalSucceeded
  /\ store.obj.status.recoverer = R1
  /\ <<"key1", "value1">> \in store.obj.status.context.kv

\* C4: a recoverer that cannot be reached or whose result is rejected never
\* ends the pass and never sends the Abnormal back to the channel: the store,
\* the channel and the working copy are left alone and the loop goes on to
\* the next recoverer of the list, or to setAbnormalFailed after the last.
C4_FailureSkips ==
  [][DispatchFailure =>
       /\ store' = store
       /\ recovererChainCh' = recovererChainCh
       /\ abnormal' = abnormal
       /\ idx' = idx + 1
       /\ IF idx < Len(recoverers)
            THEN pc' = "dispatch"
            ELSE pc' = "setAbnormalFailed"]_vars

\* C4 witness: the first recoverer was unreachable, the second was rejected,
\* and the pass stands before setAbnormalFailed.
C4_Witness ==
  /\ pc = "setAbnormalFailed"
  /\ Len(calls) = 2
  /\ calls[1].result = "failed"
  /\ calls[2].result = "rejected"

\* Every request of the pass went to an unreachable recoverer.
AllUnreachable ==
  /\ fetched.spec.assignedRecoverers # <<>>
  /\ \A i \in DOMAIN calls : calls[i].result = "failed"

\* C5 as stated: when every assigned recoverer is unreachable the Abnormal is
\* stored Failed and no status field other than phase, recoverable and
\* conditions differs from the fetched object, for every spec.
C5_OnlyPhaseChangesAnySpec ==
  [][(StoredBy("setAbnormalFailed") /\ AllUnreachable) =>
       /\ store'.obj.status.phase = AbnormalFailed
       /\ \A f \in DOMAIN fetched.status \ {"phase", "recoverable", "conditions"} :
            store'.obj.status[f] = fetched.status[f]]_vars

\* The spec entries of Recoverer type, in spec order.
OfRecovererType(specs) ==
  LET IsRecoverer(e) == e.type = RecovererType
  IN SelectSeq(specs, IsRecoverer)

\* later is earlier followed by one result for each entry of ran, in order.
Extends(earlier, later, ran) ==
  /\ Len(later) = Len(earlier) + Len(ran)
  /\ SubSeq(later, 1, Len(earlier)) = earlier
  /\ \A i \in DOMAIN ran :
       /\ later[Len(earlier) + i].of = ran[i].id
       /\ later[Len(earlier) + i].type = RecovererType

\* C5 amended: when every assigned recoverer is unreachable and the store
\* applies the update, the Abnormal is stored Failed and not recoverable;
\* status.commandExecutors and status.profilers gain one result for each spec
\* entry of Recoverer type, and no other field than phase, recoverable and
\* conditions differs from the fetched object.
C5_OnlyPhaseAndEmbeddedChange ==
  [][(StoredBy("setAbnormalFailed") /\ AllUnreachable) =>
       /\ store'.obj.status.phase = AbnormalFailed
       /\ store'.obj.status.recoverable = FALSE
       /\ Extends(fetched.status.commandExecutors,
                  store'.obj.status.commandExecutors,
                  OfRecovererType(fetched.spec.commandExecutors))
       /\ Extends(fetched.status.profilers, store'.obj.status.profilers,
                  OfRecovererType(fetched.spec.profilers))
       /\ \A f \in DOMAIN fetched.status \
                     {"phase", "recoverable", "conditions",
                      "commandExecutors", "profilers"} :
            store'.obj.status[f] = fetched.status[f]]_vars

\* C5 witness: two unreachable recoverers, a spec with embedded entries, and
\* the Abnormal stored Failed with the embedded results.
C5_Witness ==
  /\ last = StepEvent("setAbnormalFailed", "stored", "FailedRecover")
  /\ store.exists
  /\ store.obj.status.phase = AbnormalFailed
  /\ Len(store.obj.spec.assignedRecoverers) = 2
  /\ Len(recoverers) = 2
  /\ store.obj.spec.commandExecutors # <<>>
  /\ store.obj.status.commandExecutors # <<>>
  /\ store.obj.status.recoverer = NoName

\* The pass is under way: Get returned the object and SyncAbnormal has not
\* returned.
InPass ==
  pc \in {"SyncAbnormal", "runRecovery", "dispatch", "setAbnormalSucceeded",
          "setAbnormalFailed"}

\* C6 for recovererChain: a pass over an Abnormal whose assigned list is empty
\* sends no request and stands before or in setAbnormalSucceeded, never in the
\* loop or in setAbnormalFailed.
C6_EmptyListSkips ==
  (InPass /\ fetched.spec.assignedRecoverers = <<>>) =>
    /\ calls = <<>>
    /\ pc \in {"SyncAbnormal", "runRecovery", "setAbnormalSucceeded"}

\* C6 witness for recovererChain: recovery was skipped although the list of
\* recoverers is not empty.
C6_Witness ==
  /\ pc = "setAbnormalSucceeded"
  /\ last = StepEvent("runRecovery", "skip", "SkippingRecovery")
  /\ recoverers # <<>>
  /\ calls = <<>>

\* C6 as stated, for recovererChainImpl: a pass over an Abnormal in phase
\* Recovering whose assigned list is empty sends no request and never stands
\* before SetAbnormalFailed.
C6_EmptyListNoRequest ==
  (pc \in {"RunRecovery", "RunRecovery.loop", "SetAbnormalSucceeded",
           "SetAbnormalFailed"}
     /\ fetched.status.phase = AbnormalRecovering
     /\ fetched.spec.assignedRecoverers = <<>>) =>
    /\ calls = <<>>
    /\ pc # "SetAbnormalFailed"

\* C7: every request of a pass went to a recoverer whose name and namespace
\* are in spec.assignedRecoverers.
C7_OnlyAssigned ==
  \A i \in DOMAIN calls :
    calls[i].recoverer \in Range(fetched.spec.assignedRecoverers)

\* C7 witness: a request was sent and a listed recoverer that is not assigned
\* was passed over.
C7_Witness ==
  /\ InPass
  /\ calls # <<>>
  /\ \E i \in 1..Len(recoverers) :
       /\ i < idx
       /\ recoverers[i] \notin Range(fetched.spec.assignedRecoverers)
       /\ \A j \in DOMAIN calls : calls[j].recoverer # recoverers[i]

\* The position of a recoverer in the assigned list.
AssignedAt(r) ==
  CHOOSE i \in DOMAIN fetched.spec.assignedRecoverers :
    fetched.spec.assignedRecoverers[i] = r

\* C8 as stated: the requests of a pass are sent in the order of
\* spec.assignedRecoverers.
C8_AssignedOrder ==
  \A i, j \in DOMAIN calls :
    i < j => AssignedAt(calls[i].recoverer) < AssignedAt(calls[j].recoverer)

\* The requests of a pass are sent in the order of the list of recoverers.
C8_CatalogOrder ==
  \A i, j \in DOMAIN calls :
    i < j =>
      \E k, l \in DOMAIN recoverers :
        /\ k < l
        /\ recoverers[k] = calls[i].recoverer
        /\ recoverers[l] = calls[j].recoverer

\* The step of Run in which Get answers with an Abnormal stored in phase
\* Recovering.
Dequeued ==
  /\ pc = "Get"
  /\ pc' # "Get"
  /\ last'.res \notin {"error-lost", "error-requeued"}
  /\ store.exists
  /\ store.obj.status.phase = AbnormalRecovering

\* C9: IsAbnormalNodeNameMatched is true exactly for an empty node name and
\* for the node name of the engine; a dequeued Abnormal goes to SyncAbnormal
\* exactly when it is true, and otherwise is dropped: no pass, no request, no
\* write to the store, nothing sent to the channel.
C9_NodeFilter ==
  [][/\ \A n, m \in NodeNames :
          IsAbnormalNodeNameMatched([spec |-> [nodeName |-> n]], m)
            <=> (n = "" \/ n = m)
     /\ Dequeued =>
          IF store.obj.spec.nodeName = "" \/ store.obj.spec.nodeName = nodeName
            THEN pc' = "SyncAbnormal" /\ abnormal' = store.obj
            ELSE /\ pc' = "idle"
                 /\ store' = store
                 /\ recovererChainCh' = recovererChainCh
                 /\ calls' = <<>>
                 /\ abnormal' = ZeroAbnormal]_vars

\* C9 witness: an Abnormal of node2 was dropped by the engine of node1.
C9_Witness ==
  /\ last = Step("Get", "node")
  /\ pc = "idle"
  /\ store.exists
  /\ store.obj.spec.nodeName = "node2"
  /\ store.obj.status.phase = AbnormalRecovering
  /\ recovererChainCh = <<>>

\* The step in which SyncAbnormal meets an error of listRecoverers or of the
\* status update.
SyncError ==
  \/ pc = "SyncAbnormal" /\ pc' = "idle"
  \/ RefusedBy("setAbnormalSucceeded")
  \/ RefusedBy("setAbnormalFailed")

\* C10 as stated: every list or update error puts the Abnormal back on the
\* channel.
C10_AlwaysRequeued ==
  [][SyncError => recovererChainCh' = Append(recovererChainCh, Ref)]_vars

\* C10 amended: every list or update error makes SyncAbnormal send the
\* Abnormal to the channel, whatever happened before; the send succeeds when
\* the channel has room, and with a full channel nothing is added.
C10_RequeuedIfRoom ==
  [][SyncError =>
       IF Len(recovererChainCh) < ChanCap
         THEN recovererChainCh' = Append(recovererChainCh, Ref)
         ELSE recovererChainCh' = recovererChainCh]_vars

\* C10 witness: the update of setAbnormalFailed was refused while the channel
\* was full, and the pass ended without a new entry.
C10_Witness ==
  /\ pc = "idle"
  /\ last.op = "setAbnormalFailed"
  /\ last.res \in {"error-lost", "conflict-lost", "notfound-lost"}
  /\ Len(recovererChainCh) = ChanCap

\* The step in which the consumer loop of recovererChain sends the Abnormal
\* back to its own channel: after an error of Get, of listRecoverers or of
\* the status update.
Resend ==
  \/ /\ pc = "Get"
     /\ pc' # "Get"
     /\ last'.res \in {"error-lost", "error-requeued"}
  \/ SyncError

\* C11 for recovererChain: a send of the consumer loop to its own channel
\* ends the pass with the loop back at its select, whether the channel had
\* room or not.
C11_ResendReturns ==
  [][Resend =>
       /\ pc' = "idle"
       /\ Len(recovererChainCh) = ChanCap =>
            Len(recovererChainCh') <= Len(recovererChainCh)]_vars

\* C11 as stated, for recovererChainImpl: the consumer loop never stands
\* blocked in a send to its own channel.
C11_NeverBlocked == pc # "blocked"

Terminals == {AbnormalSucceeded, AbnormalFailed}

\* C12: the stored phase changes only from Recovering to Succeeded or Failed;
\* an Abnormal stored as Succeeded or Failed is never written again; and the
\* engine writes only in a pass over an object it fetched in phase Recovering.
C12_PhaseForward ==
  [][/\ (store.exists /\ store'.exists
           /\ store'.obj.status.phase # store.obj.status.phase) =>
          /\ store.obj.status.phase = AbnormalRecovering
          /\ store'.obj.status.phase \in Terminals
     /\ (store.exists /\ store.obj.status.phase \in Terminals
           /\ store'.exists) =>
          store'.obj = store.obj
     /\ (store.exists /\ store.obj.status.phase # AbnormalRecovering) =>
          (store'.exists => store'.obj = store.obj)
     /\ (StoredBy("setAbnormalSucceeded") \/ StoredBy("setAbnormalFailed")) =>
          /\ fetched.status.phase = AbnormalRecovering
          /\ store.obj.status.phase = AbnormalRecovering
          /\ store'.obj.status.phase \in Terminals]_vars

\* C12 witness: while the pass ran, the agent of another node stored a
\* terminal phase; the update of the pass was refused with a conflict and the
\* stored Abnormal kept that phase.
C12_Witness ==
  /\ pc = "idle"
  /\ last.op = "setAbnormalFailed"
  /\ last.res \in {"conflict-requeued", "conflict-lost"}
  /\ store.exists
  /\ store.obj.status.phase = AbnormalSucceeded
  /\ store.obj.resourceVersion = 2

\* The step of Run that ends the Get of a dequeued reference.
GetReturns == pc = "Get" /\ pc' # "Get"

GetFailed == GetReturns /\ last'.res \in {"error-lost", "error-requeued"}

\* What C20 says of a reference whose object is gone, and of what a failed
\* Get leaves alone: the pass ends at once, without a request and without a
\* write.
GetDrops ==
  /\ GetReturns /\ ~store.exists => last'.res = "notfound" \/ GetFailed
  /\ GetReturns /\ last'.res = "notfound" =>
       /\ ~store.exists
       /\ pc' = "idle"
       /\ recovererChainCh' = recovererChainCh
       /\ store' = store
       /\ calls' = <<>>
       /\ abnormal' = ZeroAbnormal
  /\ GetFailed =>
       /\ pc' = "idle"
       /\ store' = store
       /\ calls' = <<>>
       /\ abnormal' = ZeroAbnormal

\* C20 as stated: 'not found' drops the reference, and every other error of
\* Get puts the reference back on the channel.
C20_ErrorRequeued ==
  [][/\ GetDrops
     /\ GetFailed => recovererChainCh' = Append(recovererChainCh, Ref)]_vars

\* C20 amended: 'not found' drops the reference with no re-enqueue, no
\* request and no write; every other error of Get sends the reference to the
\* channel and does nothing else: it is queued when the channel has room, and
\* with a full channel nothing is added.
C20_ErrorRequeuedIfRoom ==
  [][/\ GetDrops
     /\ GetFailed =>
          IF Len(recovererChainCh) < ChanCap
            THEN recovererChainCh' = Append(recovererChainCh, Ref)
            ELSE recovererChainCh' = recovererChainCh]_vars

\* C20 witness: Get failed after producers had filled the channel, and the
\* reference was not queued again.
C20_Witness ==
  /\ pc = "idle"
  /\ last = Step("Get", "error-lost")
  /\ Len(recovererChainCh) = ChanCap

\* C20 witnesses of the other two cases.
C20_WitnessRequeued ==
  /\ pc = "idle"
  /\ last = Step("Get", "error-requeued")
  /\ recovererChainCh = <<Ref>>

C20_WitnessNotFound ==
  /\ pc = "idle"
  /\ last = Step("Get", "notfound")
  /\ ~store.exists
  /\ recovererChainCh = <<>>

\* The step of Run that ends the Get of a reference whose object is stored
\* in a phase other than Recovering.
GetStale ==
  /\ GetReturns
  /\ ~GetFailed
  /\ store.exists
  /\ store.obj.status.phase # AbnormalRecovering

\* C21 for recovererChain: an Abnormal fetched in a phase other than
\* Recovering ends the pass at once: nothing runs, no request, no write,
\* nothing sent to the channel.
C21_StaleDropped ==
  [][GetStale =>
       /\ pc' = "idle"
       /\ last' = Step("Get", "phase")
       /\ store' = store
       /\ recovererChainCh' = recovererChainCh
       /\ calls' = <<>>
       /\ abnormal' = ZeroAbnormal]_vars

\* An Abnormal stored as Succeeded was dropped while the channel held further
\* references.
C21_Dropped ==
  /\ pc = "idle"
  /\ last = Step("Get", "phase")
  /\ store.exists
  /\ store.obj.status.phase = AbnormalSucceeded
  /\ store.obj.resourceVersion = 2
  /\ recovererChainCh # <<>>

\* C21: SyncAbnormal of recovererChainImpl ends the pass of a dequeued
\* Abnormal whose stored phase is not Recovering, whatever phase the queued
\* copy carries.
C21_StaleDroppedImpl ==
  [][(/\ pc = "SyncAbnormal"
      /\ pc' # "SyncAbnormal"
      /\ store.exists
      /\ store.obj.status.phase # AbnormalRecovering)
       => /\ pc' = "range"
          /\ recovererChainCh' = recovererChainCh
          /\ store' = store]_vars

\* recovererChainImpl sent a request for an Abnormal that is stored with a
\* terminal phase: the queued copy was still Recovering.
C21_StaleDispatched ==
  /\ calls # <<>>
  /\ fetched.status.phase = AbnormalRecovering
  /\ fetched.resourceVersion = 1
  /\ store.exists
  /\ store.obj.resourceVersion = 2
  /\ store.obj.status.phase \in Terminals

\* C22: a request whose result was valid is the last request of its pass:
\* the pass stands before setAbnormalSucceeded with the working copy holding
\* the returned status and that recoverer, every request before it had
\* failed or was rejected, and a status stored by that call of
\* setAbnormalSucceeded is Succeeded with an assigned recoverer.
C22_FirstValidStops ==
  /\ \A i \in DOMAIN calls :
       calls[i].result = "accepted" =>
         /\ i = Len(calls)
         /\ pc = "setAbnormalSucceeded"
         /\ idx \in DOMAIN recoverers
         /\ recoverers[idx] = calls[i].recoverer
         /\ \A j \in DOMAIN calls : calls[j].recoverer = calls[i].recoverer => j = i
         /\ validated # NoValidation
         /\ validated[1].err = ""
         /\ abnormal.status
              = [validated[1].result.status EXCEPT !.recoverer = calls[i].recoverer]
  /\ (pc = "idle" /\ store.exists
        /\ last = StepEvent("setAbnormalSucceeded", "stored", "Recovered"))
       => /\ store.obj.status.phase = AbnormalSucceeded
          /\ store.obj.status.recoverable
          /\ store.obj.status.recoverer
               \in Range(store.obj.spec.assignedRecoverers)

\* C22 witness: the first recoverer of the list answered with a valid result
\* and the pass left the loop before the second, which is assigned too.
C22_Witness ==
  /\ pc = "setAbnormalSucceeded"
  /\ ByRecoverer
  /\ idx = 1
  /\ Len(recoverers) = 2
  /\ recoverers[2] \in Range(abnormal.spec.assignedRecoverers)

\* C22 witness of the stored result.
C22_WitnessStored ==
  /\ pc = "idle"
  /\ last = StepEvent("setAbnormalSucceeded", "stored", "Recovered")
  /\ store.exists
  /\ store.obj.status.recoverer = R1
  /\ recoverers = <<R1, R1k>>
  /\ store.obj.spec.assignedRecoverers = <<R1k, R1>>

\* The listed recoverers up to position n that are in the assigned list, in
\* the order of the list of recoverers.
EligibleUpTo(n) ==
  SelectSeq(SubSeq(recoverers, 1, n),
            LAMBDA r : r \in Range(fetched.spec.assignedRecoverers))

\* The positions of the list of recoverers the loop has been through.
Visited ==
  CASE pc = "dispatch" -> idx - 1
    [] pc = "setAbnormalFailed" -> Len(recoverers)
    [] pc = "setAbnormalSucceeded" -> idx
    [] OTHER -> 0

C24_EmptyListAllEligible ==
  (/\ pc \in {"setAbnormalSucceeded", "setAbnormalFailed"}
   /\ fetched.spec.assignedRecoverers = <<>>
   /\ recoverers # <<>>)
    => /\ calls # <<>>
       /\ calls[1].recoverer = recoverers[1]

\* recovererChain skipped the recovery of an Abnormal with an empty assigned
\* list although recoverers are listed.
C24_Skipped ==
  /\ pc = "setAbnormalSucceeded"
  /\ fetched.spec.assignedRecoverers = <<>>
  /\ Len(recoverers) = NumRecoverers
  /\ calls = <<>>
  /\ last = StepEvent("runRecovery", "skip", "SkippingRecovery")

\* C24 for recovererChainImpl: with an empty assigned list and no
\* skipRecovery flag the requests of a pass went to every listed recoverer
\* the loop has been through, in the order of the list.
C24_EmptyListAllEligibleImpl ==
  (/\ pc \in {"RunRecovery.loop", "SetAbnormalSucceeded", "SetAbnormalFailed"}
   /\ fetched.spec.assignedRecoverers = <<>>
   /\ ~fetched.spec.skipRecovery)
    => [i \in DOMAIN calls |-> calls[i].recoverer]
         = SubSeq(recoverers, 1,
                  CASE pc = "RunRecovery.loop" -> idx - 1
                    [] pc = "SetAbnormalFailed" -> Len(recoverers)
                    [] OTHER -> idx)

\* C25: a pass stands before setAbnormalFailed only when its loop has been
\* through the whole list of recoverers, every assigned recoverer of the list
\* got a request and none of the results was valid; a pass whose loop has
\* been through the whole list stands before setAbnormalFailed; and the
\* status stored by setAbnormalFailed is Failed.
C25_FailedWhenExhausted ==
  /\ pc = "setAbnormalFailed" =>
       /\ fetched.spec.assignedRecoverers # <<>>
       /\ idx = Len(recoverers) + 1
       /\ [i \in DOMAIN calls |-> calls[i].recoverer]
            = EligibleUpTo(Len(recoverers))
       /\ \A i \in DOMAIN calls : calls[i].result \in {"failed", "rejected"}
       /\ abnormal.status.phase = AbnormalRecovering
  /\ (InPass /\ idx > Len(recoverers)) => pc = "setAbnormalFailed"
  /\ (pc = "idle" /\ store.exists
        /\ last = StepEvent("setAbnormalFailed", "stored", "FailedRecover"))
       => /\ store.obj.status.phase = AbnormalFailed
          /\ ~store.obj.status.recoverable

\* C25 witness: both listed recoverers got a request, neither result was
\* valid, and the Abnormal is stored Failed.
C25_Witness ==
  /\ pc = "idle"
  /\ last = StepEvent("setAbnormalFailed", "stored", "FailedRecover")
  /\ store.exists
  /\ store.obj.status.phase = AbnormalFailed
  /\ store.obj.resourceVersion = 2
  /\ Len(recoverers) = 2
  /\ Range(recoverers) = Range(store.obj.spec.assignedRecoverers)

\* C25 witness of the state before the write: one of two listed recoverers
\* is assigned, and its result was rejected.
C25_WitnessExhausted ==
  /\ pc = "setAbnormalFailed"
  /\ Len(recoverers) = 2
  /\ Len(calls) = 1
  /\ calls[1].result = "rejected"

\* ------------------------------------------- embedded processors of a pass
\* An Abnormal whose spec carries several command executors and profilers of
\* Recoverer type among entries of other types.
EmbeddedSpec ==
  [commandExecutors |->
     <<Cmd("cmd1", RecovererType), Cmd("cmd2", DiagnoserType),
       Cmd("cmd3", RecovererType)>>,
   profilers |->
     <<Cmd("prof1", InformationCollectorType), Cmd("prof2", RecovererType),
       Cmd("prof3", RecovererType)>>]

EmbeddedAbnormals ==
  {[spec |-> [nodeName |-> "", assignedRecoverers |-> a,
              commandExecutors |-> EmbeddedSpec.commandExecutors,
              profilers |-> EmbeddedSpec.profilers],
    status |-> st, resourceVersion |-> 1] :
     a \in {<<>>, <<R1>>},
     st \in {FreshStatus(AbnormalRecovering),
             UsedStatus(AbnormalRecovering, ConditionFalse)}}

InitEmbedded ==
  /\ \E a \in EmbeddedAbnormals : store = [exists |-> TRUE, obj |-> a]
  /\ abnormal = ZeroAbnormal
  /\ fetched = ZeroAbnormal
  /\ recoverers \in {<<>>, <<R1>>}
  /\ recovererChainCh = <<Ref>>
  /\ stopCh = FALSE
  /\ pc = "start"
  /\ idx = 0
  /\ calls = <<>>
  /\ validated = NoValidation
  /\ last = Step("none", "")

SpecEmbedded == InitEmbedded /\ [][Next]_vars

\* The pass is past the embedded runs and holds no result of a recoverer.
PastEmbedded ==
  \/ pc \in {"dispatch", "setAbnormalFailed"}
  \/ pc = "setAbnormalSucceeded" /\ ~ByRecoverer

\* C26: past the embedded runs the working copy holds, after the results it
\* was fetched with, one result for each command executor and each profiler
\* of Recoverer type, in spec order and whatever the runs returned, and none
\* for an entry of another type; and the step that ran them went on to the
\* loop over the recoverers or to the skip, whatever the runs returned.
C26_EmbeddedIndependent ==
  /\ PastEmbedded =>
       /\ Extends(fetched.status.commandExecutors,
                  abnormal.status.commandExecutors,
                  OfRecovererType(fetched.spec.commandExecutors))
       /\ Extends(fetched.status.profilers, abnormal.status.profilers,
                  OfRecovererType(fetched.spec.profilers))
       /\ \A f \in DOMAIN abnormal.status \ {"commandExecutors", "profilers"} :
            abnormal.status[f] = fetched.status[f]
  /\ (InPass /\ last.op = "runRecovery") =>
       IF fetched.spec.assignedRecoverers = <<>>
         THEN pc = "setAbnormalSucceeded"
         ELSE pc = LoopAt(1) /\ idx = 1

\* C26 witness: the first command executor and the first profiler of
\* Recoverer type failed, the later ones ran, and a request followed.
C26_Witness ==
  /\ pc = "setAbnormalFailed"
  /\ Len(calls) = 1
  /\ fetched.status.commandExecutors # <<>>
  /\ LET ce == abnormal.status.commandExecutors
         pr == abnormal.status.profilers
     IN /\ Len(ce) = 3
        /\ ce[2].of = "cmd1" /\ ce[2].error # ""
        /\ ce[3].of = "cmd3" /\ ce[3].error = ""
        /\ Len(pr) = 2
        /\ pr[1].of = "prof2" /\ pr[1].error # ""
        /\ pr[2].of = "prof3" /\ pr[2].error # ""

\* recovererChainImpl over a fresh Abnormal in phase Recovering, with at most
\* one recoverer assigned and at most one listed.
InitSkip ==
  /\ InitImpl
  /\ store.obj.status = FreshStatus(AbnormalRecovering)
  /\ Len(store.obj.spec.assignedRecoverers) <= 1
  /\ Len(recoverers) <= 1

SpecSkip == InitSkip /\ [][NextImpl]_vars

\* recovererChainImpl is in a pass over an Abnormal that was queued in phase
\* Recovering with the SkipRecovery flag.
SkippingPass ==
  /\ pc \in {"RunRecovery", "RunRecovery.loop", "SetAbnormalSucceeded",
             "SetAbnormalFailed", "blocked"}
  /\ fetched.spec.skipRecovery

\* C27: a pass of recovererChainImpl over an Abnormal with the SkipRecovery
\* flag never enters the loop over the recoverers and sends no request: from
\* RunRecovery it goes to SetAbnormalSucceeded, whatever the assigned list
\* holds, and the status that call stores is Succeeded.  The pass is given up
\* only where the recoverers could not be listed or the update was refused.
C27_SkipRecovery ==
  /\ SkippingPass =>
       /\ pc \in {"RunRecovery", "SetAbnormalSucceeded", "blocked"}
       /\ calls = <<>>
       /\ abnormal = fetched
       /\ pc = "blocked" => last.op \in {"ListRecoverers", "SetAbnormalSucceeded"}
  /\ (pc = "range" /\ store.exists /\ store.obj.spec.skipRecovery
        /\ last = Step("SetAbnormalSucceeded", "stored"))
       => /\ store.obj.status.phase = AbnormalSucceeded
          /\ store.obj.status.recoverable

\* C27 witness: an Abnormal with the flag and with an assigned recoverer that
\* is listed was stored Succeeded, with no recoverer named in its status.
C27_Witness ==
  /\ pc = "range"
  /\ last = Step("SetAbnormalSucceeded", "stored")
  /\ store.exists
  /\ store.obj.spec.skipRecovery
  /\ store.obj.spec.assignedRecoverers = <<R1>>
  /\ recoverers = <<R1>>
  /\ store.obj.status.phase = AbnormalSucceeded
  /\ store.obj.status.recoverer = NoName
  /\ store.obj.resourceVersion = 2

\* ------------------------------------------------ the stages of the pipeline
\* The phases the engines of the two earlier stages store: the information
\* manager hands the Abnormal to the diagnoser chain, the diagnoser chain
\* hands it to the recoverer chain, and either may give it up as Failed.
StageTargets(phase) ==
  CASE phase = InformationCollecting -> {AbnormalDiagnosing, AbnormalFailed}
    [] phase = AbnormalDiagnosing -> {AbnormalRecovering, AbnormalFailed}
    [] OTHER -> {}

\* The engine of an earlier stage, of this agent or of another, stores the
\* outcome of its pass: like the recoverer chain it writes a copy it fetched in
\* its own phase, and the store applies the write only to the version fetched.
OtherStage ==
  /\ store.exists
  /\ \E phase \in StageTargets(store.obj.status.phase) :
       store' = Stored([store.obj EXCEPT !.status.phase = phase])
  /\ UNCHANGED <<recoverers, recovererChainCh, stopCh, pc, abnormal, idx,
                 fetched, calls, validated, last>>

\* The Abnormal enters the pipeline in one of the two earlier stages.
InitStages ==
  /\ Init
  /\ store.obj.status.phase \in {InformationCollecting, AbnormalDiagnosing}
  /\ store.obj.spec.commandExecutors = <<>>

NextStages == Next \/ OtherStage

SpecStages == InitStages /\ [][NextStages]_vars

\* C28 as stated: the recoverer chain sends a request only while the stored
\* phase is Recovering.
C28_DispatchInStoredPhase ==
  [][(calls' # calls /\ calls' # <<>> /\ store.exists) =>
       store.obj.status.phase = AbnormalRecovering]_vars

\* C28 amended: the recoverer chain starts a pass and sends requests only for
\* a copy it fetched in phase Recovering; every applied write replaces the
\* stored version by the next one; a write of the recoverer chain is applied
\* only to the version it fetched, which is stored in phase Recovering; and a
\* version stored in the phase of an earlier stage is replaced only by the
\* engine of that stage, while the recoverer chain stands still.
C28_OneStagePerVersion ==
  [][/\ (pc = "Get" /\ pc' \notin {"Get", "idle"}) =>
          /\ store.obj.status.phase = AbnormalRecovering
          /\ fetched' = store.obj
     /\ (calls' # calls /\ calls' # <<>>) =>
          fetched.status.phase = AbnormalRecovering
     /\ (store' # store /\ store'.exists) =>
          /\ store.exists
          /\ store'.obj.resourceVersion = store.obj.resourceVersion + 1
          /\ store'.obj.spec = store.obj.spec
     /\ (StoredBy("setAbnormalSucceeded") \/ StoredBy("setAbnormalFailed")) =>
          /\ store.obj.status.phase = AbnormalRecovering
          /\ fetched.status.phase = AbnormalRecovering
          /\ store.obj.resourceVersion = fetched.resourceVersion
          /\ store.obj.resourceVersion = abnormal.resourceVersion
     /\ (store' # store /\ store'.exists
           /\ store.obj.status.phase # AbnormalRecovering) =>
          /\ store'.obj.status.phase \in StageTargets(store.obj.status.phase)
          /\ <<pc, abnormal, fetched, calls, last>>'
               = <<pc, abnormal, fetched, calls, last>>]_vars

\* C28 witness: the Abnormal went through the two earlier stages, and the
\* recoverer chain then stored the result of its first recoverer.
C28_Witness ==
  /\ pc = "idle"
  /\ last = StepEvent("setAbnormalSucceeded", "stored", "Recovered")
  /\ store.exists
  /\ store.obj.status.phase = AbnormalSucceeded
  /\ store.obj.status.recoverer = R1
  /\ store.obj.resourceVersion = 4

\* C28 witness of a request sent after the stored phase had changed: the
\* agent of another node stored Failed while the pass stood in its loop.
C28_WitnessStale ==
  /\ pc = "dispatch"
  /\ calls # <<>>
  /\ fetched.resourceVersion = 3
  /\ store.exists
  /\ store.obj.resourceVersion = 4
  /\ store.obj.status.phase = AbnormalFailed

\* ----------------------------------------------- two agents, one Abnormal
\* The update of the pass is refused because the stored version is no longer
\* the one the pass fetched: the agent of another node wrote first.
Conflict ==
  /\ pc \in {"setAbnormalSucceeded", "setAbnormalFailed"}
  /\ pc' = "idle"
  /\ store.exists
  /\ store.obj.resourceVersion # abnormal.resourceVersion

\* The status a pass of this agent stores with its update.
OwnTerminals ==
  {Succeeded(abnormal, now).status : now \in Times}
    \cup {Failed(abnormal, now).status : now \in Times}

\* The status a pass of the other agent stores with its update.
OtherTerminals ==
  {Succeeded(store.obj, now).status : now \in Times}
    \cup {Failed(store.obj, now).status : now \in Times}

\* C29 as stated: the agent whose update meets a conflict puts the Abnormal
\* back on its channel.
C29_LoserRequeues ==
  [][Conflict => recovererChainCh' = Append(recovererChainCh, Ref)]_vars

\* C29 amended: of the updates of two agents the store applies the first and
\* refuses the other, which leaves the stored Abnormal as it is and sends the
\* reference back if the channel has room; a reference dequeued while a
\* terminal phase is stored is dropped with no request and no write; and a
\* terminal status, once stored, is the whole result of one agent's pass and
\* is never replaced.
C29_FirstClaimantWins ==
  [][/\ Conflict =>
          /\ store' = store
          /\ store.obj.status.phase \in Terminals
          /\ last'.res \in {"conflict-requeued", "conflict-lost"}
          /\ IF Len(recovererChainCh) < ChanCap
               THEN recovererChainCh' = Append(recovererChainCh, Ref)
               ELSE recovererChainCh' = recovererChainCh
     /\ (pc = "Get" /\ pc' # "Get" /\ store.exists
           /\ store.obj.status.phase \in Terminals
           /\ last'.res \notin {"error-lost", "error-requeued"}) =>
          /\ pc' = "idle"
          /\ last' = Step("Get", "phase")
          /\ calls' = <<>>
          /\ store' = store
          /\ recovererChainCh' = recovererChainCh
     /\ (store.exists /\ store.obj.status.phase \in Terminals
           /\ store'.exists) =>
          store' = store
     /\ (store' # store /\ store'.exists) =>
          /\ store.obj.resourceVersion \in {1, fetched.resourceVersion}
          /\ store'.obj.status.phase \in Terminals
          /\ IF pc' # pc
               THEN /\ StoredBy("setAbnormalSucceeded")
                         \/ StoredBy("setAbnormalFailed")
                    /\ store'.obj.status \in OwnTerminals
               ELSE /\ store'.obj.status \in OtherTerminals
                    /\ store.obj.spec.nodeName = ""
                    /\ <<abnormal, fetched, calls, recovererChainCh>>'
                         = <<abnormal, fetched, calls, recovererChainCh>>]_vars

\* C29 witness: the other agent stored Failed while this agent's pass had a
\* valid result; this agent's update met the conflict and the reference went
\* back to the channel.
C29_Witness ==
  /\ pc = "idle"
  /\ last = Step("setAbnormalSucceeded", "conflict-requeued")
  /\ recovererChainCh = <<Ref>>
  /\ store.exists
  /\ store.obj.spec.nodeName = ""
  /\ store.obj.status.phase = AbnormalFailed
  /\ store.obj.status.recoverer = NoName
  /\ store.obj.resourceVersion = 2

\* C29 witness of the re-enqueue that is lost: the conflict came while
\* producers had filled the channel.
C29_WitnessLost ==
  /\ pc = "idle"
  /\ last = Step("setAbnormalSucceeded", "conflict-lost")
  /\ Len(recovererChainCh) = ChanCap
  /\ store.exists
  /\ store.obj.status.phase = AbnormalFailed

\* C29 witness of the next pass: the reference was dequeued again and dropped
\* on the phase the other agent stored.
C29_WitnessDropped ==
  /\ pc = "idle"
  /\ last = Step("Get", "phase")
  /\ recovererChainCh = <<>>
  /\ store.exists
  /\ store.obj.spec.nodeName = ""
  /\ store.obj.status.phase = AbnormalFailed
  /\ store.obj.resourceVersion = 2

\* ------------------------------------------- duplicate and stale entries
\* The step of Run that ends the Get of a reference dequeued after the pass
\* over its Abnormal is over: a terminal phase is stored, or nothing is.
DequeuedLate ==
  /\ pc = "Get"
  /\ pc' # "Get"
  /\ store.exists => store.obj.status.phase \in Terminals

C30_WitnessDuplicates ==
  /\ pc = "idle"
  /\ last.op = "setAbnormalFailed"
  /\ last.res = "stored"
  /\ Len(recovererChainCh) = ChanCap
  /\ store.exists
  /\ store.obj.spec.nodeName = nodeName
  /\ store.obj.status.phase = AbnormalFailed

\* ------------------------------------------------------ liveness of retry
\* The engine over a fresh Abnormal in phase Recovering with at most one
\* recoverer assigned and at most one listed.
InitLive ==
  /\ Init
  /\ store.obj.status = FreshStatus(AbnormalRecovering)
  /\ store.obj.spec.commandExecutors = <<>>
  /\ Len(store.obj.spec.assignedRecoverers) <= 1
  /\ Len(recoverers) <= 1

\* Producers that do not saturate the channel: they leave the room the
\* consumer needs to send back the reference it holds.
ProduceLive ==
  /\ Len(recovererChainCh) < ChanCap - 1
  /\ Produce

NextLive ==
  \/ WaitForCacheSync
  \/ RunReceive
  \/ RunGet
  \/ SyncAbnormal
  \/ runRecoveryEmbedded
  \/ runRecoveryDispatch
  \/ setAbnormalSucceeded
  \/ setAbnormalFailed
  \/ ProduceLive
  \/ DeleteAbnormal
  \/ OtherAgent

\* The steps in which the store answers without a transient error.
GetAnswered == RunGet /\ last'.res \notin {"error-lost", "error-requeued"}

ListAnswered == SyncAbnormal /\ pc' = "runRecovery"

UpdateAnswered == (setAbnormalSucceeded \/ setAbnormalFailed) /\ store' # store

\* The goroutine of Run is scheduled (weak fairness of its steps), and each
\* kind of store failure is transient (strong fairness of the answered step).
SpecLive ==
  /\ InitLive
  /\ [][NextLive]_vars
  /\ WF_vars(RunReceive)
  /\ WF_vars(RunGet)
  /\ WF_vars(SyncAbnormal)
  /\ WF_vars(runRecoveryEmbedded)
  /\ WF_vars(runRecoveryDispatch)
  /\ WF_vars(setAbnormalSucceeded)
  /\ WF_vars(setAbnormalFailed)
  /\ SF_vars(GetAnswered)
  /\ SF_vars(ListAnswered)
  /\ SF_vars(UpdateAnswered)

\* A reference to a stored Abnormal in phase Recovering that this node may
\* process is queued, or is held by the running consumer.
Pending ==
  /\ pc \notin {"start", "returned"}
  /\ recovererChainCh # <<>> \/ pc # "idle"
  /\ store.exists
  /\ store.obj.status.phase = AbnormalRecovering
  /\ IsAbnormalNodeNameMatched(store.obj, nodeName)

Settled == ~store.exists \/ store.obj.status.phase \in Terminals

C31_WitnessSettled ==
  /\ pc = "idle"
  /\ last.op = "setAbnormalFailed"
  /\ last.res = "stored"
  /\ store.exists
  /\ store.obj.spec.nodeName = nodeName
  /\ store.obj.status.phase = AbnormalFailed
  /\ store.obj.resourceVersion = 2

\* ------------------------------------------------- start and stop of Run
\* No step of the loop of Run has been taken: nothing was received, no pass
\* holds an Abnormal, and the reference queued at the start is still queued.
NothingProcessed ==
  /\ abnormal = ZeroAbnormal
  /\ fetched = ZeroAbnormal
  /\ calls = <<>>
  /\ validated = NoValidation
  /\ idx = 0
  /\ recovererChainCh # <<>>
  /\ Head(recovererChainCh) = Ref

\* C33: while Run waits for the caches nothing has been received or processed,
\* and when WaitForCacheSync fails Run has returned with nothing received or
\* processed, whether or not the stop signal was raised.
C33_GatedByCacheSync ==
  /\ pc = "start" => last.op = "none" /\ NothingProcessed
  /\ last.op = "none" => pc = "start"
  /\ last.op = "WaitForCacheSync" =>
       IF last.res = "synced"
         THEN pc \in {"idle", "Get"} /\ (pc = "idle" => NothingProcessed)
         ELSE pc = "returned" /\ NothingProcessed

\* C33 witness: the stop signal was raised, WaitForCacheSync failed and Run
\* returned while producers had filled the channel.
C33_Witness ==
  /\ pc = "returned"
  /\ last = Step("WaitForCacheSync", "failed")
  /\ stopCh
  /\ Len(recovererChainCh) = ChanCap
  /\ store.exists
  /\ store.obj.status.phase = AbnormalRecovering
  /\ store.obj.resourceVersion = 1

\* C33 for recovererChainImpl: before its caches are synced Run has neither
\* listed nor received an Abnormal, and after a failed sync it has returned.
C33_GatedByCacheSyncImpl ==
  /\ pc = "start" =>
       last.op = "none" /\ abnormal = ZeroAbnormal /\ calls = <<>>
  /\ last.op = "none" => pc = "start"
  /\ last.op = "WaitForCacheSync" =>
       /\ pc = IF last.res = "synced" THEN "ListAbnormals" ELSE "returned"
       /\ abnormal = ZeroAbnormal
       /\ calls = <<>>
       /\ store.exists => store.obj.resourceVersion = 1 \/ store.obj.spec.nodeName = ""

\* Run of recovererChain with the stop signal, over the Abnormals of InitLive.
\* The goroutine is scheduled (weak fairness of its steps), and the select of
\* Run chooses fairly between its two cases: when the stop case is ready again
\* and again it is taken (strong fairness of RunStop).
SpecShutdown ==
  /\ InitLive
  /\ [][NextStop]_vars
  /\ WF_vars(WaitForCacheSync)
  /\ WF_vars(RunGet)
  /\ WF_vars(SyncAbnormal)
  /\ WF_vars(runRecoveryEmbedded)
  /\ WF_vars(runRecoveryDispatch)
  /\ WF_vars(setAbnormalSucceeded)
  /\ WF_vars(setAbnormalFailed)
  /\ SF_vars(RunStop)

\* Run of recovererChainImpl with the stop signal, over the Abnormals of
\* InitSkip; every step of the goroutine that can be taken is taken.
SpecImplStop ==
  /\ InitSkip
  /\ [][NextImpl \/ Shutdown]_vars
  /\ WF_vars(WaitForCacheSyncImpl)
  /\ WF_vars(ListAbnormals)
  /\ WF_vars(RangeRecv)
  /\ WF_vars(SyncAbnormalImpl)
  /\ WF_vars(RunRecovery)
  /\ WF_vars(RunRecoveryLoop)
  /\ WF_vars(SetAbnormalSucceeded)
  /\ WF_vars(SetAbnormalFailed)

\* C34 for recovererChain: once the stop signal is raised Run returns, and it
\* returns only from WaitForCacheSync or from the select of its loop: a pass
\* that has started is carried on, step by step, to its update or its
\* re-enqueue.
C34_StopBetweenDequeues ==
  /\ stopCh ~> (pc = "returned")
  /\ [][/\ (pc' = "returned" /\ pc # "returned") =>
             /\ pc \in {"start", "idle"}
             /\ abnormal = ZeroAbnormal
             /\ calls = <<>>
        /\ (pc \notin {"start", "idle", "returned"} /\ pc' # pc) =>
             pc' \in {"idle", "SyncAbnormal", "runRecovery", "dispatch",
                      "setAbnormalSucceeded", "setAbnormalFailed"}]_vars

\* C34 for recovererChain, the case: the stop signal was raised while a
\* request was in flight, and the pass went on to store its result.
C34_StoppedBetween ==
  /\ stopCh
  /\ pc = "idle"
  /\ last = StepEvent("setAbnormalSucceeded", "stored", "Recovered")
  /\ store.exists
  /\ store.obj.status.recoverer = R1

\* C34 as stated, for recovererChainImpl: once the stop signal is raised Run
\* returns.
C34_StopReturnsImpl == stopCh ~> (pc = "returned")

\* C34 for recovererChainImpl, the case: the stop signal is raised and Run
\* stands at the range over its channel, which is empty.
C34_StoppedInRange ==
  /\ stopCh
  /\ pc = "range"
  /\ recovererChainCh = <<>>

\* ------------------------------------------------ the stored terminal status
\* The statuses of the Recovered conditions of a status.
RecoveredAs(status) ==
  {status.conditions[i].status :
     i \in {j \in DOMAIN status.conditions :
              status.conditions[j].type = AbnormalRecovered}}

\* C35: every status stored by a recoverer chain (resourceVersion above the
\* one the Abnormal entered with) has phase Succeeded with recoverable true
\* and Recovered True, or phase Failed with recoverable false and Recovered
\* False.
C35_TerminalConsistent ==
  (store.exists /\ store.obj.resourceVersion > 1) =>
     \/ /\ store.obj.status.phase = AbnormalSucceeded
        /\ store.obj.status.recoverable
        /\ RecoveredAs(store.obj.status) = {ConditionTrue}
     \/ /\ store.obj.status.phase = AbnormalFailed
        /\ ~store.obj.status.recoverable
        /\ RecoveredAs(store.obj.status) = {ConditionFalse}

\* C35 witness: the Abnormal was fetched with recoverable true and Recovered
\* False, every request failed, and setAbnormalFailed stored Failed with
\* recoverable false.
C35_Witness ==
  /\ pc = "idle"
  /\ last.op = "setAbnormalFailed"
  /\ last.res = "stored"
  /\ store.exists
  /\ store.obj.spec.nodeName = nodeName
  /\ store.obj.status.recoverer = R2
  /\ store.obj.status.phase = AbnormalFailed
  /\ ~store.obj.status.recoverable

\* C35 witness of the other phase: Recovered False was replaced by True.
C35_WitnessSucceeded ==
  /\ pc = "idle"
  /\ last.op = "setAbnormalSucceeded"
  /\ last.res = "stored"
  /\ store.exists
  /\ store.obj.spec.nodeName = nodeName
  /\ store.obj.status.phase = AbnormalSucceeded
  /\ Len(store.obj.status.conditions) = 2
  /\ store.obj.status.conditions[2].lastTransitionTime = 1

\* C36: a status stored by setAbnormalSucceeded after a valid result names
\* the recoverer of that result, which is listed, is assigned in the spec and
\* whose result passed ValidateAbnormalResult in this pass; a status stored
\* by setAbnormalSucceeded when recovery was skipped, or by setAbnormalFailed,
\* names the recoverer the fetched status named; and until a result is valid
\* the working copy names the fetched one.
C36_RecovererByEngine ==
  [][/\ StoredBy("setAbnormalSucceeded") =>
          IF ByRecoverer
            THEN LET r == calls[Len(calls)].recoverer
                 IN /\ store'.obj.status.recoverer = r
                    /\ r \in Range(recoverers)
                    /\ Matched(r, fetched.spec.assignedRecoverers)
                    /\ Len(validated) = 1
                    /\ validated[1].err = ""
                    /\ validated[1].result.status.recoverer
                         = fetched.status.recoverer
            ELSE /\ store'.obj.status.recoverer = fetched.status.recoverer
                 /\ fetched.spec.assignedRecoverers = <<>>
                 /\ calls = <<>>
     /\ StoredBy("setAbnormalFailed") =>
          /\ store'.obj.status.recoverer = fetched.status.recoverer
          /\ \A i \in DOMAIN calls : calls[i].result # "accepted"
     /\ (pc \in {"SyncAbnormal", "runRecovery", "dispatch", "setAbnormalFailed"}) =>
          abnormal.status.recoverer = fetched.status.recoverer]_vars

\* C36 witness: the fetched status named recoverer2; recoverer1 is listed
\* and assigned, its result was valid, and the stored status names
\* recoverer1.
C36_Witness ==
  /\ pc = "idle"
  /\ last = StepEvent("setAbnormalSucceeded", "stored", "Recovered")
  /\ store.exists
  /\ store.obj.spec.nodeName = nodeName
  /\ store.obj.status.recoverer = R1
  /\ Matched(R1, store.obj.spec.assignedRecoverers)
  /\ R1 \in Range(recoverers)
  /\ store.obj.status.commandExecutors # <<>>
  /\ store.obj.status.commandExecutors[1].of = "cmd0"

\* C36 witness of the other two paths: the stored status names recoverer2 as
\* the fetched status did.
C36_WitnessKept ==
  /\ pc = "idle"
  /\ last.res = "stored"
  /\ last.event \in {"", "FailedRecover"}
  /\ store.exists
  /\ store.obj.spec.nodeName = nodeName
  /\ store.obj.status.recoverer = R2

\* ------------------------------------------- the payload of the requests
\* The working copy holds nothing a recoverer wrote: the spec and the context
\* are the fetched ones and no result entry comes from a recoverer.
Untouched(a) ==
  /\ a.spec = fetched.spec
  /\ a.resourceVersion = fetched.resourceVersion
  /\ a.status.context = fetched.status.context
  /\ \A f \in DOMAIN a.status \ {"commandExecutors", "profilers"} :
       a.status[f] = fetched.status[f]
  /\ \A i \in DOMAIN a.status.commandExecutors :
       a.status.commandExecutors[i].of # "remote"
  /\ \A i \in DOMAIN a.status.profilers :
       a.status.profilers[i].of # "remote"

\* C37: in the loop over the recoverers the Abnormal that is sent, the working
\* copy, is the fetched one with the embedded results of this pass; a failed
\* or rejected request leaves it as it was, so that the next recoverer gets
\* the same payload and setAbnormalFailed writes that copy; no recoverer gets
\* two requests in a pass; and a valid result is validated against that same
\* copy and is the only result adopted.
C37_NoTraceOfFailures ==
  [][/\ (pc = "dispatch" /\ pc' \in {"dispatch", "setAbnormalFailed"}) =>
          /\ abnormal' = abnormal
          /\ validated' = NoValidation
          /\ Untouched(abnormal)
     /\ (pc = "dispatch" /\ pc' = "setAbnormalSucceeded") =>
          /\ Untouched(abnormal)
          /\ validated'[1].current = abnormal
          /\ abnormal' = Adopt(abnormal, validated'[1].result, recoverers[idx])
     /\ NoRepeat([i \in DOMAIN calls' |-> calls'[i].recoverer])
     /\ \A i \in DOMAIN calls' :
          calls'[i].result = "accepted" => i = Len(calls')
     /\ StoredBy("setAbnormalFailed") =>
          /\ Untouched(abnormal)
          /\ \E now \in Times : store'.obj.status = Failed(abnormal, now).status
          /\ store'.obj.status.context = fetched.status.context]_vars

\* C37 witness: the first recoverer was rejected, the second was unreachable,
\* and setAbnormalFailed stored the fetched context and results.
C37_Witness ==
  /\ pc = "idle"
  /\ last.op = "setAbnormalFailed"
  /\ last.res = "stored"
  /\ Len(recoverers) = 2
  /\ store.exists
  /\ store.obj.spec.nodeName = nodeName
  /\ Len(store.obj.spec.assignedRecoverers) = 2
  /\ store.obj.status.context = ContextOf({<<"key0", "value0">>})
  /\ store.obj.status.profilers = <<>>

\* C37 witness of the pass itself: two requests were sent, to two recoverers,
\* the first was rejected, and the working copy is the fetched Abnormal.
C37_WitnessPass ==
  /\ pc = "setAbnormalFailed"
  /\ Len(calls) = 2
  /\ calls[1].result = "rejected"
  /\ calls[2].result = "failed"
  /\ calls[1].recoverer # calls[2].recoverer
  /\ abnormal = fetched

\* ------------------------------------------ embedded results and retries
\* The result arrays of a status are those of an earlier one followed by one
\* entry for each embedded processor of Recoverer type of the spec.
OnePassOfResults(earlier, later, spec) ==
  /\ Extends(earlier.commandExecutors, later.commandExecutors,
             OfRecovererType(spec.commandExecutors))
  /\ Extends(earlier.profilers, later.profilers,
             OfRecovererType(spec.profilers))

\* C38: every pass starts from the stored Abnormal as Get returns it, a
\* refused update leaves the stored Abnormal as it is, and an applied update
\* replaces it by the status of this one pass: unless a valid result rewrote
\* the arrays, the stored result arrays are those stored before followed by
\* one entry for each Recoverer-type command executor and profiler of the
\* spec, and the valid result was given exactly those.
C38_NoAccumulation ==
  [][/\ (pc = "Get" /\ pc' = "SyncAbnormal") =>
          abnormal' = store.obj /\ fetched' = store.obj
     /\ (RefusedBy("setAbnormalSucceeded") \/ RefusedBy("setAbnormalFailed")) =>
          /\ store' = store
          /\ abnormal' = ZeroAbnormal
     /\ (StoredBy("setAbnormalSucceeded") \/ StoredBy("setAbnormalFailed")) =>
          /\ fetched = store.obj
          /\ IF ByRecoverer
               THEN /\ OnePassOfResults(store.obj.status,
                                        validated[1].current.status,
                                        store.obj.spec)
                    /\ store'.obj.status.commandExecutors
                         = validated[1].result.status.commandExecutors
                    /\ store'.obj.status.profilers
                         = validated[1].result.status.profilers
               ELSE OnePassOfResults(store.obj.status, store'.obj.status,
                                     store.obj.spec)]_vars

\* C38 witness: the update of a pass was refused for a transient error; the
\* spec has a command executor and a profiler of Recoverer type, the
\* reference is queued again, and the stored status has none of their
\* results.
C38_Witness ==
  /\ pc = "idle"
  /\ last = Step("setAbnormalFailed", "error-requeued")
  /\ store.exists
  /\ store.obj.spec.commandExecutors # <<>>
  /\ store.obj.status.commandExecutors = <<>>
  /\ store.obj.status.profilers = <<>>
  /\ store.obj.resourceVersion = 1

\* C38 witness of the stored outcome: one result of the command executor
\* behind the one stored before, and one result of the profiler.
C38_WitnessStored ==
  /\ pc = "idle"
  /\ last.op = "setAbnormalFailed"
  /\ last.res = "stored"
  /\ store.exists
  /\ store.obj.spec.nodeName = nodeName
  /\ Len(store.obj.status.commandExecutors) = 2
  /\ store.obj.status.commandExecutors[1].of = "cmd0"
  /\ store.obj.status.commandExecutors[2].of = "cmd2"
  /\ Len(store.obj.status.profilers) = 1

\* The result arrays hold, behind the ones of a status the Abnormal entered
\* with, one entry for each embedded processor of Recoverer type.
EmbeddedStored(status, spec) ==
  \E earlier \in {FreshStatus(AbnormalRecovering),
                  UsedStatus(AbnormalRecovering, ConditionFalse)} :
    OnePassOfResults(earlier, status, spec)

\* C39: a pass over an Abnormal with an empty assigned list stands, past
\* runRecovery's embedded runs, before setAbnormalSucceeded with no request
\* sent and with one result for each Recoverer-type command executor and
\* profiler behind the fetched ones; and the status setAbnormalSucceeded then
\* stores is Succeeded with those results.
C39_EmbeddedBeforeSkip ==
  /\ (pc \in {"dispatch", "setAbnormalSucceeded", "setAbnormalFailed"}
        /\ fetched.spec.assignedRecoverers = <<>>) =>
       /\ pc = "setAbnormalSucceeded"
       /\ calls = <<>>
       /\ last = StepEvent("runRecovery", "skip", "SkippingRecovery")
       /\ OnePassOfResults(fetched.status, abnormal.status, fetched.spec)
  /\ (pc = "idle" /\ last = StepEvent("setAbnormalSucceeded", "stored", "")
        /\ store.exists) =>
       /\ store.obj.spec.assignedRecoverers = <<>>
       /\ store.obj.status.phase = AbnormalSucceeded
       /\ EmbeddedStored(store.obj.status, store.obj.spec)

\* C39 witness: no recoverer assigned, one listed; the stored status is
\* Succeeded and holds the results of cmd1, cmd3, prof2 and prof3, cmd1 with
\* an error, behind the result it was fetched with.
C39_Witness ==
  /\ pc = "idle"
  /\ last = StepEvent("setAbnormalSucceeded", "stored", "")
  /\ store.exists
  /\ recoverers = <<R1>>
  /\ store.obj.spec.assignedRecoverers = <<>>
  /\ store.obj.status.phase = AbnormalSucceeded
  /\ [i \in DOMAIN store.obj.status.commandExecutors |->
        store.obj.status.commandExecutors[i].of] = <<"cmd0", "cmd1", "cmd3">>
  /\ store.obj.status.commandExecutors[2].error # ""
  /\ [i \in DOMAIN store.obj.status.profilers |->
        store.obj.status.profilers[i].of] = <<"prof2", "prof3">>

\* ------------------------------------------------------ events of a pass
\* C40: the Recovered event is the event of a step in which setAbnormalSucceeded
\* stored the result of a recoverer, and the stored phase is then Succeeded;
\* the FailedRecover event is the event of a step in which setAbnormalFailed
\* stored its status, and the stored phase is then Failed; and the step in
\* which an update was refused has no event.
C40_EventsFollowStore ==
  /\ last.event = "Recovered" =>
       /\ last.op = "setAbnormalSucceeded"
       /\ last.res = "stored"
       /\ pc \in {"idle", "Get"}
       /\ store.exists =>
            /\ store.obj.status.phase = AbnormalSucceeded
            /\ store.obj.status.recoverer \in Range(recoverers)
            /\ store.obj.resourceVersion = 2
  /\ last.event = "FailedRecover" =>
       /\ last.op = "setAbnormalFailed"
       /\ last.res = "stored"
       /\ pc \in {"idle", "Get"}
       /\ store.exists =>
            /\ store.obj.status.phase = AbnormalFailed
            /\ store.obj.resourceVersion = 2
  /\ (last.op \in {"setAbnormalSucceeded", "setAbnormalFailed"}
        /\ last.res # "stored") =>
       /\ last.event = ""
       /\ last.res \in {"error-requeued", "error-lost", "conflict-requeued",
                        "conflict-lost", "notfound-requeued", "notfound-lost"}

\* C40 witness: the update of setAbnormalSucceeded after a valid result was
\* refused with a conflict: no event, the Abnormal is stored as the other
\* agent left it.
C40_Witness ==
  /\ pc = "idle"
  /\ last = StepEvent("setAbnormalSucceeded", "conflict-requeued", "")
  /\ store.exists
  /\ store.obj.status.phase = AbnormalFailed
  /\ store.obj.status.recoverer = NoName
  /\ R1 \in Range(recoverers)
  /\ Matched(R1, store.obj.spec.assignedRecoverers)

\* C40 witnesses of the two events.
C40_WitnessRecovered ==
  /\ last.event = "Recovered"
  /\ store.exists
  /\ store.obj.status.phase = AbnormalSucceeded
  /\ store.obj.status.recoverer = R1k

C40_WitnessFailedRecover ==
  /\ last.event = "FailedRecover"
  /\ store.exists
  /\ store.obj.status.phase = AbnormalFailed
  /\ store.obj.spec.nodeName = ""

\* ------------------------------------------------------------- Handler
\* The methods of the requests sent to the handler.
Methods == {"GET", "POST", "DELETE"}

\* rc.cache.List and json.Marshal answer with nil ("") or with an error.
ListResults == {"", "failed to list"}

MarshalResults == {"", "failed to marshal"}

\* What Handler writes to the http.ResponseWriter for a request: http.Error
\* writes the code and a text message, w.Write without WriteHeader answers
\* 200 with the data.  The first definition is the variant without the switch
\* on the method.
HandlerWritesAnyMethod(method, listErr, marshalErr) ==
  [method |-> method, code |-> 200, contentType |-> "application/json",
   json |-> recoverers, text |-> ""]

HandlerWrites(method, listErr, marshalErr) ==
  CASE method = "GET" /\ listErr # "" ->
         [method |-> method, code |-> 500,
          contentType |-> "text/plain; charset=utf-8", json |-> <<>>,
          text |-> "failed to list recoverers: " \o listErr]
    [] method = "GET" /\ listErr = "" /\ marshalErr # "" ->
         [method |-> method, code |-> 500,
          contentType |-> "text/plain; charset=utf-8", json |-> <<>>,
          text |-> "failed to marshal recoverers: " \o marshalErr]
    [] method = "GET" /\ listErr = "" /\ marshalErr = "" ->
         [method |-> method, code |-> 200, contentType |-> "application/json",
          json |-> recoverers, text |-> ""]
    [] OTHER ->
         [method |-> method, code |-> 405,
          contentType |-> "text/plain; charset=utf-8", json |-> <<>>,
          text |-> "method " \o method \o " is not supported"]

\* One request served by Handler; calls holds the response it wrote.
Handler ==
  /\ \E method \in Methods, listErr \in ListResults,
        marshalErr \in MarshalResults :
       calls' = <<HandlerWrites(method, listErr, marshalErr)>>
  /\ last' = Step("Handler", "")
  /\ UNCHANGED <<store, recoverers, recovererChainCh, stopCh, pc, abnormal,
                 idx, fetched, validated>>

\* The handler is served while producers fill the queue and while the
\* Abnormal is deleted or rewritten by others.
NextHandler ==
  \/ Handler
  \/ Produce
  \/ DeleteAbnormal
  \/ OtherAgent

SpecHandler == Init /\ [][NextHandler]_vars

\* C18: a request answered by Handler gets 200 with the JSON list of the
\* recoverers of the cache or 500 when its method is GET, and 405 for every
\* other method; serving it changes neither the Abnormal nor the queue.
C18_Handler ==
  [][calls' # calls /\ last'.op = "Handler" =>
       LET r == calls'[1]
       IN /\ r.method = "GET" =>
               \/ r.code = 500 /\ r.json = <<>>
               \/ /\ r.code = 200
                  /\ r.contentType = "application/json"
                  /\ r.json = recoverers
          /\ r.method # "GET" => r.code = 405 /\ r.json = <<>>
          /\ r.code \in {200, 405, 500}
          /\ store' = store
          /\ recovererChainCh' = recovererChainCh
          /\ recoverers' = recoverers]_vars

\* C18 witness: a GET was answered with the two recoverers of the cache
\* while the queue was full.
C18_Witness ==
  /\ last.op = "Handler"
  /\ calls # <<>>
  /\ calls[1].method = "GET"
  /\ calls[1].code = 200
  /\ Len(calls[1].json) = NumRecoverers
  /\ Len(recovererChainCh) = ChanCap

\* C18 witness of the other answers.
C18_WitnessNotAllowed ==
  /\ last.op = "Handler"
  /\ calls # <<>>
  /\ calls[1].method = "POST"
  /\ calls[1].code = 405

C18_WitnessInternal ==
  /\ last.op = "Handler"
  /\ calls # <<>>
  /\ calls[1].method = "GET"
  /\ calls[1].code = 500

\* ------------------------------------- ValidateAbnormalResult on its own
\* The largest number of fields one result rewrites.
MaxEdits == 2

EditSets == {K \in SUBSET Edits : Cardinality(K) <= MaxEdits}

\* The pre-call objects: what the engine may hold, and diagnosisv1.Abnormal{}.
ValidateInputs == Abnormals \cup {ZeroAbnormal}

InitValidate ==
  /\ \E a \in ValidateInputs : store = [exists |-> TRUE, obj |-> a]
  /\ abnormal = ZeroAbnormal
  /\ fetched = ZeroAbnormal
  /\ recoverers = <<>>
  /\ recovererChainCh = <<>>
  /\ stopCh = FALSE
  /\ pc = "validate"
  /\ idx = 0
  /\ calls = <<>>
  /\ validated = NoValidation
  /\ last = Step("none", "")

\* One call ValidateAbnormalResult(result, abnormal), the result being the
\* object with the fields of K rewritten.
ValidateResult ==
  /\ pc = "validate"
  /\ \E K \in EditSets :
       validated' = Validation(Respond(store.obj, K), store.obj)
  /\ pc' = "validated"
  /\ last' = Step("ValidateAbnormalResult", "")
  /\ UNCHANGED <<store, recoverers, recovererChainCh, stopCh, abnormal,
                 idx, fetched, calls>>

NextValidate == ValidateResult

SpecValidate == InitValidate /\ [][NextValidate]_vars

\* The protected fields in which the validated result differs from the
\* pre-call object.
Modified(v) ==
  {f \in Range(ProtectedFields) : Field(v.result, f) # Field(v.current, f)}

\* The message util_test.go expects for a field.
MessageOf(f) ==
  f \o (IF f = "spec" THEN " field" ELSE " filed")
    \o " of Abnormal must not be modified"

\* C1: ValidateAbnormalResult rejects every result that differs from the
\* pre-call object in a protected field, and when exactly one protected field
\* differs the error names that field.
C1_RejectsProtected ==
  validated # NoValidation =>
    LET v == validated[1]
    IN /\ Modified(v) # {} => v.err # ""
       /\ \A f \in Modified(v) : Modified(v) = {f} => v.err = MessageOf(f)

\* C1 witness: a result whose only protected difference is status.recoverer
\* was rejected with the recoverer error.
C1_Witness ==
  /\ validated # NoValidation
  /\ Modified(validated[1]) = {"recoverer"}
  /\ validated[1].result.status.context # validated[1].current.status.context
  /\ validated[1].err = "recoverer filed of Abnormal must not be modified"

\* C2: ValidateAbnormalResult returns no error for a result equal to the
\* pre-call object in every protected field, whatever it did to
\* status.context, status.commandExecutors and status.profilers.
C2_AcceptsFree ==
  validated # NoValidation =>
    (Modified(validated[1]) = {} => validated[1].err = "")

\* C2 witness: a result that rewrote the command-executor and the profiler
\* results, and nothing protected, was accepted.
C2_Witness ==
  /\ validated # NoValidation
  /\ validated[1].err = ""
  /\ validated[1].result.status.commandExecutors
       # validated[1].current.status.commandExecutors
  /\ validated[1].result.status.profilers
       # validated[1].current.status.profilers

\* C2 witness of the reflexive case: the empty Abnormal validated against
\* itself.
C2_WitnessEmpty ==
  /\ validated # NoValidation
  /\ validated[1].current = ZeroAbnormal
  /\ validated[1].result = ZeroAbnormal
  /\ validated[1].err = ""

\* ------------------------------------- UpdateAbnormalCondition on its own
\* The number of updates applied to one status.
MaxUpdates == 2

ConditionTypes == {InformationCollected, AbnormalIdentified, AbnormalRecovered}

ConditionStatuses == {ConditionTrue, ConditionFalse, "Unknown"}

\* The conditions a caller passes: the time is the zero value, the function
\* stamps it.
ConditionInputs ==
  {[type |-> t, status |-> s, lastTransitionTime |-> 0,
    reason |-> rm[1], message |-> rm[2]] :
     t \in ConditionTypes, s \in ConditionStatuses,
     rm \in {<<"", "">>, <<"successfully", "Abnormal recovered">>}}

\* The condition lists a status starts with: at most two entries, one per
\* type, recorded at time 0.
ConditionLists ==
  {l \in SeqsUpTo(
          {[type |-> t, status |-> s, lastTransitionTime |-> 0,
            reason |-> "earlier", message |-> "earlier"] :
             t \in ConditionTypes, s \in ConditionStatuses}, 2) :
     \A i, j \in DOMAIN l : l[i].type = l[j].type => i = j}

InitCondition ==
  /\ \E l \in ConditionLists :
       store = [exists |-> TRUE,
                obj |-> [ZeroAbnormal EXCEPT !.status.conditions = l]]
  /\ abnormal = ZeroAbnormal
  /\ fetched = ZeroAbnormal
  /\ recoverers = <<>>
  /\ recovererChainCh = <<>>
  /\ stopCh = FALSE
  /\ pc = "condition"
  /\ idx = 0
  /\ calls = <<>>
  /\ validated = NoValidation
  /\ last = Step("none", "")

\* One call UpdateAbnormalCondition(&status, condition); the clock has
\* advanced since the call before it.  Each call is recorded with the list
\* before and after it and the value it returned.
UpdateCondition ==
  /\ pc = "condition"
  /\ Len(calls) < MaxUpdates
  /\ \E c \in ConditionInputs :
       LET now == Len(calls) + 1
           u == UpdateAbnormalCondition(store.obj.status, c, now)
       IN /\ store' = [store EXCEPT !.obj.status = u.status]
          /\ calls' = Append(calls,
               [condition |-> c, now |-> now,
                before |-> store.obj.status.conditions,
                after |-> u.status.conditions, changed |-> u.changed])
  /\ last' = Step("UpdateAbnormalCondition", "")
  /\ UNCHANGED <<recoverers, recovererChainCh, stopCh, pc, abnormal, idx,
                 fetched, validated>>

NextCondition == UpdateCondition

SpecCondition == InitCondition /\ [][NextCondition]_vars

\* C13: a call of UpdateAbnormalCondition that follows a call with the same
\* type and status leaves the condition list, the entry's lastTransitionTime
\* included, as it was and returns false.
C13_Idempotent ==
  \A k \in 2..Len(calls) :
    (/\ calls[k].condition.type = calls[k - 1].condition.type
     /\ calls[k].condition.status = calls[k - 1].condition.status)
      => /\ calls[k].after = calls[k].before
         /\ ~calls[k].changed
         /\ store.obj.status.conditions = calls[Len(calls)].after

\* C13 witness: the first call recorded a transition, the second call with
\* the same type and status, later and with another reason, changed nothing.
C13_Witness ==
  /\ Len(calls) = 2
  /\ calls[1].changed
  /\ calls[1].before # <<>>
  /\ GetAbnormalCondition(calls[1].before, calls[1].condition.type) # 0
  /\ calls[2].condition.type = calls[1].condition.type
  /\ calls[2].condition.status = calls[1].condition.status
  /\ calls[2].condition.reason # calls[1].condition.reason
  /\ ~calls[2].changed
  /\ store.obj.status.conditions = calls[1].after

\* The condition as it is stored by a call at the time now.
Stamped(c) == [c.condition EXCEPT !.lastTransitionTime = c.now]

\* C14: a call with a type absent from the list appends the condition with
\* lastTransitionTime = now; a call with a type present under another status
\* puts the condition, with its status, reason and message and a later
\* lastTransitionTime, in the place of that entry; both return true, and a
\* call returns false exactly when it left the list as it was.
C14_AppendOrReplace ==
  \A k \in DOMAIN calls :
    LET c == calls[k]
        i == GetAbnormalCondition(c.before, c.condition.type)
    IN /\ i = 0 => /\ c.after = Append(c.before, Stamped(c))
                   /\ c.changed
       /\ (i # 0 /\ c.before[i].status # c.condition.status)
            => /\ c.after = [c.before EXCEPT ![i] = Stamped(c)]
               /\ c.after[i].lastTransitionTime
                    > c.before[i].lastTransitionTime
               /\ c.changed
       /\ ~c.changed <=> c.after = c.before

\* C14 witness: one call appended an entry, the next replaced the status,
\* reason and message of an entry that was not the last one.
C14_Witness ==
  /\ Len(calls) = 2
  /\ Len(calls[1].after) = Len(calls[1].before) + 1
  /\ LET c == calls[2]
         i == GetAbnormalCondition(c.before, c.condition.type)
     IN /\ i # 0
        /\ i < Len(c.before)
        /\ c.before[i].status # c.condition.status
        /\ c.before[i].reason # c.condition.reason
        /\ c.after[i].reason = c.condition.reason
        /\ c.after[i].message = c.condition.message
        /\ c.changed

\* The condition types of a list, in the order of the list.
TypesOf(conditions) == [i \in DOMAIN conditions |-> conditions[i].type]

\* C32: after any sequence of calls of UpdateAbnormalCondition on a list with
\* one entry per type, the list has one entry per type, and each call left
\* the types in their order, with the type of the call appended when the list
\* did not hold it.
C32_OnePerTypeInOrder ==
  /\ NoRepeat(TypesOf(store.obj.status.conditions))
  /\ \A n \in DOMAIN calls :
       LET c == calls[n]
       IN /\ c.before = IF n = 1 THEN c.before ELSE calls[n - 1].after
          /\ NoRepeat(TypesOf(c.after))
          /\ TypesOf(c.after) =
               IF c.condition.type \in Range(TypesOf(c.before))
                 THEN TypesOf(c.before)
                 ELSE Append(TypesOf(c.before), c.condition.type)
  /\ calls # <<>> => store.obj.status.conditions = calls[Len(calls)].after

\* C32 witness: on a list that held InformationCollected the first call
\* appended Recovered False, and the second changed Recovered to True in its
\* place behind InformationCollected.
C32_Witness ==
  /\ Len(calls) = 2
  /\ TypesOf(calls[1].before) = <<InformationCollected>>
  /\ calls[1].condition.type = AbnormalRecovered
  /\ calls[1].condition.status = ConditionFalse
  /\ calls[2].condition.type = AbnormalRecovered
  /\ calls[2].condition.status = ConditionTrue
  /\ TypesOf(store.obj.status.conditions)
       = <<InformationCollected, AbnormalRecovered>>
  /\ store.obj.status.conditions[1] = calls[1].before[1]
  /\ store.obj.status.conditions[2].status = ConditionTrue
  /\ store.obj.status.conditions[2].lastTransitionTime = 2

\* C32 for the engine: every stored status has one condition per type, and a
\* status stored by setAbnormalSucceeded or setAbnormalFailed keeps the
\* conditions of the fetched Abnormal in their order, with Recovered appended
\* when the fetched list did not hold it.
C32_StoredConditions ==
  /\ store.exists => NoRepeat(TypesOf(store.obj.status.conditions))
  /\ (pc = "idle" /\ last.res = "stored" /\ store.exists) =>
       /\ AbnormalRecovered \in Range(TypesOf(store.obj.status.conditions))
       /\ \A i \in DOMAIN store.obj.status.conditions :
            store.obj.status.conditions[i].type # AbnormalRecovered =>
              store.obj.status.conditions[i]
                = FreshStatus(AbnormalRecovering).conditions[i]

\* --------------------------------------------- context accessors on their own
\* The number of accessor calls applied to one Abnormal.
MaxContextOps == 2

\* &runtime.RawExtension{}: a context that is present and holds no bytes.
ContextEmpty == [tag |-> "empty", kv |-> {}]

\* Raw bytes that are not JSON, []byte{0, 1, 2} in the tests.
ContextInvalid == [tag |-> "invalid", kv |-> {}]

DecodeError == "invalid character '\\x00' looking for beginning of value"

Keys == {"key1", "key2"}

\* The values a caller stores: Go strings and a number.
Values ==
  {[kind |-> "string", text |-> "value1"],
   [kind |-> "string", text |-> "value3"],
   [kind |-> "number", text |-> "1"]}

NoValue == [kind |-> "none", text |-> ""]

\* json.Marshal of a value: a string is quoted, a number is its digits, the
\* nil interface is null.
Marshal(v) ==
  CASE v.kind = "string" -> "\"" \o v.text \o "\""
    [] v.kind = "number" -> v.text
    [] OTHER -> "null"

\* json.Unmarshal of the text of one value into an interface{}.
Unmarshal(json) ==
  IF \E v \in Values : Marshal(v) = json
    THEN CHOOSE v \in Values : Marshal(v) = json
    ELSE NoValue

\* A JSON object as raw bytes: its <<key, JSON text of the value>> pairs, one
\* pair per key.
Objects ==
  {kv \in SUBSET (Keys \X {Marshal(v) : v \in Values}) :
     \A p, q \in kv : p[1] = q[1] => p = q}

Contexts ==
  {ContextNil, ContextEmpty, ContextInvalid} \cup {ContextOf(kv) : kv \in Objects}

\* The map[string]interface{} the accessors decode a valid context into:
\* nil and empty raw bytes give the empty map.
Decoded(context) == {<<p[1], Unmarshal(p[2])>> : p \in context.kv}

\* json.Marshal of the map.
Encoded(map) == ContextOf({<<p[1], Marshal(p[2])>> : p \in map})

Without(map, key) == {p \in map : p[1] # key}

\* SetAbnormalContext(abnormal, key, value): the Abnormal with the key set
\* in the context, and the error.  The first definition is the variant that
\* forgets the keys it was not given.
SetAbnormalContextAlone(a, key, value) ==
  IF a.status.context.tag = "invalid"
    THEN [abnormal |-> a, err |-> DecodeError]
    ELSE [abnormal |-> [a EXCEPT !.status.context = Encoded({<<key, value>>})],
          err |-> ""]

SetAbnormalContext(a, key, value) ==
  IF a.status.context.tag = "invalid"
    THEN [abnormal |-> a, err |-> DecodeError]
    ELSE [abnormal |->
            [a EXCEPT !.status.context =
               Encoded(Without(Decoded(@), key) \cup {<<key, value>>})],
          err |-> ""]

\* GetAbnormalContext(abnormal, key): the JSON text of the value ("" is nil)
\* and the error.  The first definition is the variant with one error for
\* every context that decodes to the empty map.
GetAbnormalContextOneError(a, key) ==
  LET context == a.status.context
      map == Decoded(context)
  IN CASE context.tag = "invalid" -> [value |-> "", err |-> DecodeError]
       [] context.tag # "invalid" /\ map = {} ->
            [value |-> "", err |-> "abnormal context nil"]
       [] OTHER ->
            [value |-> IF \E p \in map : p[1] = key
                         THEN Marshal((CHOOSE p \in map : p[1] = key)[2])
                         ELSE Marshal(NoValue),
             err |-> ""]

GetAbnormalContext(a, key) ==
  LET context == a.status.context
      map == Decoded(context)
  IN CASE context.tag = "nil" -> [value |-> "", err |-> "abnormal context nil"]
       [] context.tag = "invalid" -> [value |-> "", err |-> DecodeError]
       [] context.tag \in {"empty", "json"} /\ map = {} ->
            [value |-> "", err |-> "abnormal context empty"]
       [] OTHER ->
            [value |-> IF \E p \in map : p[1] = key
                         THEN Marshal((CHOOSE p \in map : p[1] = key)[2])
                         ELSE Marshal(NoValue),
             err |-> ""]

\* RemoveAbnormalContext(abnormal, key): the Abnormal, the removed flag and
\* the error.  The first definition is the variant that clears the context.
RemoveAbnormalContextAll(a, key) ==
  CASE a.status.context.tag \in {"nil", "empty"} ->
         [abnormal |-> a, removed |-> TRUE, err |-> ""]
    [] a.status.context.tag = "invalid" ->
         [abnormal |-> [a EXCEPT !.status.context = Encoded({})],
          removed |-> FALSE, err |-> DecodeError]
    [] OTHER ->
         [abnormal |-> [a EXCEPT !.status.context = Encoded({})],
          removed |-> TRUE, err |-> ""]

RemoveAbnormalContext(a, key) ==
  CASE a.status.context.tag \in {"nil", "empty"} ->
         [abnormal |-> a, removed |-> TRUE, err |-> ""]
    [] a.status.context.tag = "invalid" ->
         [abnormal |-> a, removed |-> FALSE, err |-> DecodeError]
    [] OTHER ->
         [abnormal |->
            [a EXCEPT !.status.context = Encoded(Without(Decoded(@), key))],
          removed |-> TRUE, err |-> ""]

InitContext ==
  /\ \E c \in Contexts :
       store = [exists |-> TRUE,
                obj |-> [ZeroAbnormal EXCEPT !.status.context = c]]
  /\ abnormal = ZeroAbnormal
  /\ fetched = ZeroAbnormal
  /\ recoverers = <<>>
  /\ recovererChainCh = <<>>
  /\ stopCh = FALSE
  /\ pc = "context"
  /\ idx = 0
  /\ calls = <<>>
  /\ validated = NoValidation
  /\ last = Step("none", "")

\* One accessor call is recorded with its arguments, the Abnormal it was
\* given, the Abnormal it returned and its other results.
ContextCall(op, key, arg, after, value, removed, err) ==
  /\ pc = "context"
  /\ Len(calls) < MaxContextOps
  /\ store' = [store EXCEPT !.obj = after]
  /\ calls' = Append(calls,
       [op |-> op, key |-> key, arg |-> arg, before |-> store.obj,
        after |-> after, value |-> value, removed |-> removed, err |-> err])
  /\ last' = Step(op, err)
  /\ UNCHANGED <<recoverers, recovererChainCh, stopCh, pc, abnormal, idx,
                 fetched, validated>>

SetContext ==
  \E key \in Keys, value \in Values :
    LET r == SetAbnormalContext(store.obj, key, value)
    IN ContextCall("SetAbnormalContext", key, value, r.abnormal, "", FALSE,
                   r.err)

GetContext ==
  \E key \in Keys :
    LET r == GetAbnormalContext(store.obj, key)
    IN ContextCall("GetAbnormalContext", key, NoValue, store.obj, r.value,
                   FALSE, r.err)

RemoveContext ==
  \E key \in Keys :
    LET r == RemoveAbnormalContext(store.obj, key)
    IN ContextCall("RemoveAbnormalContext", key, NoValue, r.abnormal, "",
                   r.removed, r.err)

NextContext ==
  \/ SetContext
  \/ GetContext
  \/ RemoveContext

SpecContext == InitContext /\ [][NextContext]_vars

\* The JSON text stored under a key of a context, "" when there is none.
TextAt(context, key) ==
  IF \E p \in context.kv : p[1] = key
    THEN (CHOOSE p \in context.kv : p[1] = key)[2]
    ELSE ""

ContextOp(k, op) == k \in DOMAIN calls /\ calls[k].op = op

\* C15: on a nil, an empty or a valid context SetAbnormalContext(k, v)
\* succeeds, holds exactly one value under k, the JSON encoding of v, and
\* leaves every other key with its value; a GetAbnormalContext(k) that
\* follows returns the JSON encoding of v.
C15_SetThenGet ==
  \A k \in DOMAIN calls :
    (ContextOp(k, "SetAbnormalContext")
       /\ calls[k].before.status.context.tag # "invalid")
      => LET c == calls[k]
             ctx == c.after.status.context
         IN /\ c.err = ""
            /\ ctx.tag = "json"
            /\ \A p \in ctx.kv : p[1] = c.key => p[2] = Marshal(c.arg)
            /\ <<c.key, Marshal(c.arg)>> \in ctx.kv
            /\ \A key \in Keys \ {c.key} :
                 TextAt(ctx, key) = TextAt(c.before.status.context, key)
            /\ c.after = [c.before EXCEPT !.status.context = ctx]
            /\ (ContextOp(k + 1, "GetAbnormalContext")
                  /\ calls[k + 1].key = c.key)
                 => /\ calls[k + 1].err = ""
                    /\ calls[k + 1].value = Marshal(c.arg)

\* C15 witness: a set overwrote the value of a key next to another key, and
\* the get of that key returned the new value as JSON.
C15_Witness ==
  /\ Len(calls) = 2
  /\ calls[1].op = "SetAbnormalContext"
  /\ calls[1].key = "key2"
  /\ calls[1].arg = [kind |-> "string", text |-> "value3"]
  /\ calls[1].before.status.context
       = ContextOf({<<"key1", "\"value1\"">>, <<"key2", "1">>})
  /\ calls[2].op = "GetAbnormalContext"
  /\ calls[2].key = "key2"
  /\ calls[2].value = "\"value3\""
  /\ store.obj.status.context
       = ContextOf({<<"key1", "\"value1\"">>, <<"key2", "\"value3\"">>})

\* C15 witness of the nil context: the set created the object with the one
\* key.
C15_WitnessNil ==
  /\ Len(calls) = 2
  /\ calls[1].op = "SetAbnormalContext"
  /\ calls[1].before.status.context = ContextNil
  /\ calls[2].op = "GetAbnormalContext"
  /\ calls[2].key = calls[1].key
  /\ calls[2].value = "1"

\* C16: GetAbnormalContext returns 'abnormal context nil' for a status
\* without a context, 'abnormal context empty' for a context without bytes,
\* and no error for a valid object that lacks the key.
C16_GetErrors ==
  \A k \in DOMAIN calls :
    ContextOp(k, "GetAbnormalContext")
      => LET c == calls[k]
             ctx == c.before.status.context
         IN /\ ctx = ContextNil => c.err = "abnormal context nil"
            /\ ctx = ContextEmpty => c.err = "abnormal context empty"
            /\ (ctx.tag = "json" /\ ctx.kv # {} /\ TextAt(ctx, c.key) = "")
                 => c.err = ""
            /\ c.after = c.before

\* C16 witness: the three cases happened, one after a remove emptied the
\* key.
C16_Witness ==
  /\ Len(calls) = 2
  /\ calls[1].op = "RemoveAbnormalContext"
  /\ calls[2].op = "GetAbnormalContext"
  /\ calls[2].key = calls[1].key
  /\ calls[2].before.status.context.kv # {}
  /\ calls[2].err = ""
  /\ calls[2].value = "null"

C16_WitnessNil ==
  /\ Len(calls) = 1
  /\ calls[1].op = "GetAbnormalContext"
  /\ calls[1].before.status.context = ContextNil
  /\ calls[1].err = "abnormal context nil"

C16_WitnessEmpty ==
  /\ Len(calls) = 1
  /\ calls[1].op = "GetAbnormalContext"
  /\ calls[1].before.status.context = ContextEmpty
  /\ calls[1].err = "abnormal context empty"

\* C17: RemoveAbnormalContext on a nil or an empty context succeeds and
\* returns the Abnormal as it was; on a valid context it returns the object
\* without the key and with every other key and value; on bytes that are not
\* JSON it returns removed = false, the decode error and the Abnormal as it
\* was.
C17_Remove ==
  \A k \in DOMAIN calls :
    ContextOp(k, "RemoveAbnormalContext")
      => LET c == calls[k]
             ctx == c.before.status.context
             res == c.after.status.context
         IN /\ ctx \in {ContextNil, ContextEmpty}
                 => c.err = "" /\ c.removed /\ c.after = c.before
            /\ ctx.tag = "json"
                 => /\ c.err = ""
                    /\ res.tag = "json"
                    /\ res.kv = {p \in ctx.kv : p[1] # c.key}
                    /\ c.after = [c.before EXCEPT !.status.context = res]
            /\ ctx = ContextInvalid
                 => /\ ~c.removed
                    /\ c.err = DecodeError
                    /\ c.after = c.before

\* C17 witness: a remove took one of two keys away.
C17_Witness ==
  /\ Len(calls) = 1
  /\ calls[1].op = "RemoveAbnormalContext"
  /\ calls[1].key = "key2"
  /\ calls[1].removed
  /\ calls[1].before.status.context
       = ContextOf({<<"key1", "\"value1\"">>, <<"key2", "\"value3\"">>})
  /\ store.obj.status.context = ContextOf({<<"key1", "\"value1\"">>})

\* C17 witness of the corrupt context.
C17_WitnessInvalid ==
  /\ Len(calls) = 1
  /\ calls[1].op = "RemoveAbnormalContext"
  /\ calls[1].before.status.context = ContextInvalid
  /\ ~calls[1].removed
  /\ calls[1].err = DecodeError
  /\ store.obj.status.context = ContextInvalid

\* ------------------------------------------------- the timeout of one call
\* time.Second, counted in milliseconds: the product of an int32 and
\* time.Second stays within the int64 of time.Duration.
Second == 1000

\* spec.timeoutSeconds of a Recoverer as the engine reads it: an int32, 0
\* when the field is not declared.
TimeoutSeconds == {0, 1, 30, 60}

\* The catalogs of recoverers with their timeouts.
TimedCatalogs ==
  {s \in SeqsUpTo([name : RecovererNames, timeoutSeconds : TimeoutSeconds],
                  NumRecoverers) :
     \A i, j \in DOMAIN s : s[i].name = s[j].name => i = j}

\* http.Client{Timeout: timeout}: a Timeout of zero means no timeout.
Limited(timeout) == timeout # 0

\* The client runRecovery builds for a recoverer.
ClientOf(recoverer) ==
  LET timeout == recoverer.timeoutSeconds * Second
  IN [timeout |-> timeout, limited |-> Limited(timeout)]

InitTimeout ==
  /\ store = [exists |-> TRUE,
              obj |-> [ZeroAbnormal EXCEPT
                         !.status = FreshStatus(AbnormalRecovering)]]
  /\ abnormal = ZeroAbnormal
  /\ fetched = ZeroAbnormal
  /\ recoverers \in TimedCatalogs
  /\ recovererChainCh = <<>>
  /\ stopCh = FALSE
  /\ pc = "runRecovery"
  /\ idx = 1
  /\ calls = <<>>
  /\ validated = NoValidation
  /\ last = Step("none", "")

\* One iteration of the loop of runRecovery up to the request: the client is
\* built from the recoverer and the request is sent with it.
DoHTTPRequest ==
  /\ pc = "runRecovery"
  /\ idx <= Len(recoverers)
  /\ calls' = Append(calls,
       [recoverer |-> recoverers[idx], client |-> ClientOf(recoverers[idx])])
  /\ idx' = idx + 1
  /\ last' = Step("DoHTTPRequestWithAbnormal", "")
  /\ UNCHANGED <<store, recoverers, recovererChainCh, stopCh, pc, abnormal,
                 fetched, validated>>

NextTimeout == DoHTTPRequest

SpecTimeout == InitTimeout /\ [][NextTimeout]_vars

\* C19: every request to a recoverer is sent with a time limit of at least
\* one second, 30 seconds when the recoverer declares none.
C19_AlwaysLimited ==
  \A k \in DOMAIN calls :
    /\ calls[k].client.limited
    /\ calls[k].client.timeout >= Second
    /\ calls[k].recoverer.timeoutSeconds = 0
         => calls[k].client.timeout = 30 * Second

\* What the engine does: the limit is the declared number of seconds, and a
\* recoverer without one is called without a limit.
C19_TimeoutAsDeclared ==
  \A k \in DOMAIN calls :
    /\ calls[k].client.timeout = calls[k].recoverer.timeoutSeconds * Second
    /\ calls[k].client.limited <=> calls[k].recoverer.timeoutSeconds # 0

\* A request was sent to a recoverer without a declared timeout.
C19_Undeclared ==
  /\ calls # <<>>
  /\ calls[Len(calls)].recoverer.timeoutSeconds = 0
  /\ ~calls[Len(calls)].client.limited

====
